---------------------------- MODULE Spec2Model ----------------------------
(***************************************************************************)
(* MagiTerm: the incremental JSON field decoder (lib/ai-streaming.ts) and  *)
(* the streaming routes that drive it or a structured event producer       *)
(* (app/api/terminal/stream, app/api/ai/generate/stream, explain stream).  *)
(*                                                                         *)
(* Text is modelled as JavaScript models it: a string is a sequence of     *)
(* UTF-16 code units, so a character is a number (34 is the double quote,  *)
(* 92 the backslash, 97 is the letter a).                                  *)
(***************************************************************************)
EXTENDS Integers, Sequences, FiniteSets, TLC

VARIABLES
    text,        \* the whole upstream text of this run (decoder harness, field routes)
    expected,    \* field -> the value its pair carries in text
    pos,         \* number of characters of text fed so far
    cuts,        \* decoder harness: where chunk boundaries have fallen so far
    decoders,    \* field -> JsonFieldStreamDecoder instance (with its listener log)
    route,       \* which route handles the request: "execute", "generate", "explain"
    session,     \* the locals of the route's ReadableStream start(), and where it stands
    controller,  \* the ReadableStream controller: its state and what was enqueued
    prisma,      \* the calls made to the persistence layer, each with its outcome
    generator,   \* the upstream producer (runExecute / runSuggest / runExplain)
    now          \* Date.now()

decoderVars == <<text, expected, pos, cuts, decoders>>
pipelineVars == <<route, session, controller, prisma, generator, now>>
vars == <<text, expected, pos, cuts, decoders, route, session, controller, prisma, generator, now>>

(***************************************************************************)
(* Characters                                                              *)
(***************************************************************************)
QUOTE == 34
BACKSLASH == 92
COLON == 58
LOWER_U == 117

\* /\s/ of ECMAScript: WhiteSpace and LineTerminator code units
WHITESPACE_REGEX ==
    {9, 10, 11, 12, 13, 32, 160, 5760, 8232, 8233, 8239, 8287, 12288, 65279}
        \cup (8192..8202)

\* JSON.parse: the single-character escapes of a JSON string and what they denote
SimpleEscape ==
    (34 :> 34) @@ (92 :> 92) @@ (47 :> 47) @@ (98 :> 8) @@ (102 :> 12)
        @@ (110 :> 10) @@ (114 :> 13) @@ (116 :> 9)

\* JSON.parse: value of a hexadecimal digit, -1 when the code unit is none
HexDigit(c) ==
    IF c \in 48..57 THEN c - 48
    ELSE IF c \in 65..70 THEN c - 55
    ELSE IF c \in 97..102 THEN c - 87
    ELSE -1

ParseFailed == [ok |-> FALSE, value |-> <<>>]

RECURSIVE JsonParseFrom(_, _, _)
\* JSON.parse(`"${buf}"`) from index i on, acc being the text decoded so far
JsonParseFrom(buf, i, acc) ==
    IF i > Len(buf) THEN [ok |-> TRUE, value |-> acc]
    ELSE LET c == buf[i] IN
        IF c = QUOTE \/ c < 32 THEN ParseFailed
        ELSE IF c # BACKSLASH THEN JsonParseFrom(buf, i + 1, Append(acc, c))
        ELSE IF i + 1 > Len(buf) THEN ParseFailed
        ELSE LET e == buf[i + 1] IN
            IF e \in DOMAIN SimpleEscape
            THEN JsonParseFrom(buf, i + 2, Append(acc, SimpleEscape[e]))
            ELSE IF e = LOWER_U /\ i + 5 <= Len(buf)
                    /\ \A k \in 2..5 : HexDigit(buf[i + k]) >= 0
            THEN JsonParseFrom(buf, i + 6,
                    Append(acc, HexDigit(buf[i + 2]) * 4096 + HexDigit(buf[i + 3]) * 256
                                + HexDigit(buf[i + 4]) * 16 + HexDigit(buf[i + 5])))
            ELSE ParseFailed

\* JSON.parse of the buffer wrapped in quotes: [ok, value]
JsonParseString(buf) == JsonParseFrom(buf, 1, <<>>)

\* String.prototype.slice(start) on a sequence (start is a 0-based offset)
Slice(s, start) == SubSeq(s, start + 1, Len(s))

(***************************************************************************)
(* JsonFieldStreamDecoder                                                  *)
(***************************************************************************)
FieldStage == {"SearchingKey", "AfterKey", "WaitingForStringStart", "Collecting", "Complete"}

\* the key pattern "<field>" with its surrounding quotes
keyPattern(field) == <<QUOTE>> \o field \o <<QUOTE>>

\* A new decoder; calls records the listener invocations in order.
NewDecoder(field) ==
    [ field |-> field,
      stage |-> "SearchingKey",
      keyIndex |-> 0,
      collectingBuffer |-> <<>>,
      escapeActive |-> FALSE,
      unicodeDigitsRemaining |-> 0,
      lastEmittedLength |-> 0,
      currentValue |-> <<>>,
      calls |-> <<>> ]

OnDelta(d, delta, fullValue) ==
    [listener |-> "onDelta", field |-> d.field, delta |-> delta, value |-> fullValue]

OnComplete(d, value) ==
    [listener |-> "onComplete", field |-> d.field, delta |-> <<>>, value |-> value]

\* a mismatch only resets the match index (reset-and-advance)
processKeyChar_ResetOnly(d, char) ==
    LET pattern == keyPattern(d.field) IN
    IF char = pattern[d.keyIndex + 1]
    THEN IF d.keyIndex + 1 = Len(pattern)
         THEN [d EXCEPT !.stage = "AfterKey", !.keyIndex = 0]
         ELSE [d EXCEPT !.keyIndex = d.keyIndex + 1]
    ELSE [d EXCEPT !.keyIndex = 0]

\* every mismatching character is counted as a match of the first character
processKeyChar_RestartsAtOne(d, char) ==
    LET pattern == keyPattern(d.field) IN
    IF char = pattern[d.keyIndex + 1]
    THEN IF d.keyIndex + 1 = Len(pattern)
         THEN [d EXCEPT !.stage = "AfterKey", !.keyIndex = 0]
         ELSE [d EXCEPT !.keyIndex = d.keyIndex + 1]
    ELSE [d EXCEPT !.keyIndex = 1]

processKeyChar(d, char) ==
    LET pattern == keyPattern(d.field) IN
    IF char = pattern[d.keyIndex + 1]
    THEN IF d.keyIndex + 1 = Len(pattern)
         THEN [d EXCEPT !.stage = "AfterKey", !.keyIndex = 0]
         ELSE [d EXCEPT !.keyIndex = d.keyIndex + 1]
    ELSE [d EXCEPT !.keyIndex = IF char = pattern[1] THEN 1 ELSE 0]

\* the rejecting character is dropped: the search restarts with the next one
resetSearchAndReprocess_DropsChar(d, char) ==
    [d EXCEPT !.stage = "SearchingKey", !.keyIndex = 0]

resetSearchAndReprocess(d, char) ==
    processKeyChar([d EXCEPT !.stage = "SearchingKey", !.keyIndex = 0], char)

processPostKeyChar(d, char) ==
    IF char = COLON THEN [d EXCEPT !.stage = "WaitingForStringStart"]
    ELSE IF char \in WHITESPACE_REGEX THEN d
    ELSE resetSearchAndReprocess(d, char)

processStringStartChar(d, char) ==
    IF char \in WHITESPACE_REGEX THEN d
    ELSE IF char = QUOTE
    THEN [d EXCEPT !.stage = "Collecting",
                   !.collectingBuffer = <<>>,
                   !.escapeActive = FALSE,
                   !.unicodeDigitsRemaining = 0,
                   !.lastEmittedLength = 0]
    ELSE resetSearchAndReprocess(d, char)

\* the listener is handed the whole decoded value as the delta
emitDelta_WholeValueAsDelta(d) ==
    IF Len(d.collectingBuffer) = 0 THEN d
    ELSE LET parsed == JsonParseString(d.collectingBuffer)
             decoded == parsed.value
         IN IF parsed.ok /\ Len(decoded) > d.lastEmittedLength
            THEN [d EXCEPT !.lastEmittedLength = Len(decoded),
                           !.currentValue = decoded,
                           !.calls = Append(@, OnDelta(d, decoded, decoded))]
            ELSE d

\* no try / catch around JSON.parse: a buffer that does not decode makes
\* processChunk throw
emitDelta_Throws(d) ==
    IF Len(d.collectingBuffer) = 0 THEN d
    ELSE LET parsed == JsonParseString(d.collectingBuffer)
             decoded == parsed.value
         IN IF ~parsed.ok THEN [d EXCEPT !.stage = "threw"]
            ELSE IF Len(decoded) > d.lastEmittedLength
            THEN [d EXCEPT !.lastEmittedLength = Len(decoded),
                           !.currentValue = decoded,
                           !.calls = Append(@,
                               OnDelta(d, Slice(decoded, d.lastEmittedLength), decoded))]
            ELSE d

\* the listener is called but the decoded value is not stored for the getter
emitDelta_SkipsStore(d) ==
    IF Len(d.collectingBuffer) = 0 THEN d
    ELSE LET parsed == JsonParseString(d.collectingBuffer)
             decoded == parsed.value
         IN IF parsed.ok /\ Len(decoded) > d.lastEmittedLength
            THEN [d EXCEPT !.lastEmittedLength = Len(decoded),
                           !.calls = Append(@,
                               OnDelta(d, Slice(decoded, d.lastEmittedLength), decoded))]
            ELSE d

\* the buffered raw text is handed to the listener as it is, without JSON.parse
emitDelta_NoDecoding(d) ==
    IF Len(d.collectingBuffer) = 0 THEN d
    ELSE LET decoded == d.collectingBuffer
         IN IF Len(decoded) > d.lastEmittedLength
            THEN [d EXCEPT !.lastEmittedLength = Len(decoded),
                           !.currentValue = decoded,
                           !.calls = Append(@,
                               OnDelta(d, Slice(decoded, d.lastEmittedLength), decoded))]
            ELSE d

emitDelta(d) ==
    IF Len(d.collectingBuffer) = 0 THEN d
    ELSE LET parsed == JsonParseString(d.collectingBuffer)
             decoded == parsed.value
         IN IF parsed.ok /\ Len(decoded) > d.lastEmittedLength
            THEN [d EXCEPT !.lastEmittedLength = Len(decoded),
                           !.currentValue = decoded,
                           !.calls = Append(@,
                               OnDelta(d, Slice(decoded, d.lastEmittedLength), decoded))]
            ELSE d

\* after the notification the decoder searches for the next occurrence of the key
finalizeValue_SearchesAgain(d) ==
    LET parsed == JsonParseString(d.collectingBuffer)
        done == IF parsed.ok
                THEN [d EXCEPT !.calls = Append(@, OnComplete(d, parsed.value))]
                ELSE d
    IN [done EXCEPT !.stage = "SearchingKey",
                    !.keyIndex = 0,
                    !.collectingBuffer = <<>>,
                    !.escapeActive = FALSE,
                    !.unicodeDigitsRemaining = 0]

\* the finally block clears lastEmittedLength along with the scratch buffers
finalizeValue_ClearsEmittedLength(d) ==
    LET parsed == JsonParseString(d.collectingBuffer)
        done == IF parsed.ok
                THEN [d EXCEPT !.calls = Append(@, OnComplete(d, parsed.value))]
                ELSE d
    IN [done EXCEPT !.stage = "Complete",
                    !.collectingBuffer = <<>>,
                    !.escapeActive = FALSE,
                    !.unicodeDigitsRemaining = 0,
                    !.lastEmittedLength = 0]

\* the completion notification is sent from the finally block, with the value
\* decoded so far
finalizeValue_NotifiesInFinally(d) ==
    LET parsed == JsonParseString(d.collectingBuffer)
        decoded == IF parsed.ok THEN parsed.value ELSE d.currentValue
    IN [d EXCEPT !.stage = "Complete",
                 !.collectingBuffer = <<>>,
                 !.escapeActive = FALSE,
                 !.unicodeDigitsRemaining = 0,
                 !.currentValue = decoded,
                 !.calls = Append(@, OnComplete(d, decoded))]

finalizeValue(d) ==
    LET parsed == JsonParseString(d.collectingBuffer)
        decoded == parsed.value
        grows == parsed.ok /\ Len(decoded) > d.lastEmittedLength
        delta == Slice(decoded, d.lastEmittedLength)
        afterDelta ==
            IF grows
            THEN [d EXCEPT !.lastEmittedLength = Len(decoded),
                           !.currentValue = decoded,
                           !.calls = IF Len(delta) > 0
                                     THEN Append(@, OnDelta(d, delta, decoded))
                                     ELSE @]
            ELSE d
        afterComplete ==
            IF parsed.ok
            THEN [afterDelta EXCEPT !.calls = Append(@, OnComplete(d, decoded))]
            ELSE afterDelta
    IN [afterComplete EXCEPT !.stage = "Complete",
                             !.collectingBuffer = <<>>,
                             !.escapeActive = FALSE,
                             !.unicodeDigitsRemaining = 0]

\* no escape tracking: the character after a backslash is handled like any other
processValueChar_NoEscapeTracking(d, char) ==
    IF char = QUOTE
    THEN finalizeValue(d)
    ELSE emitDelta([d EXCEPT !.collectingBuffer = Append(@, char)])

\* a \u escape is considered resolved after 3 further characters
processValueChar_ThreeHexDigits(d, char) ==
    IF d.unicodeDigitsRemaining > 0
    THEN LET b == [d EXCEPT !.collectingBuffer = Append(@, char),
                            !.unicodeDigitsRemaining = @ - 1]
         IN IF b.unicodeDigitsRemaining = 0
            THEN emitDelta([b EXCEPT !.escapeActive = FALSE])
            ELSE b
    ELSE IF d.escapeActive
    THEN LET b == [d EXCEPT !.collectingBuffer = Append(@, char)]
         IN IF char = LOWER_U
            THEN [b EXCEPT !.unicodeDigitsRemaining = 3]
            ELSE emitDelta([b EXCEPT !.escapeActive = FALSE])
    ELSE IF char = BACKSLASH
    THEN [d EXCEPT !.collectingBuffer = Append(@, char), !.escapeActive = TRUE]
    ELSE IF char = QUOTE
    THEN finalizeValue(d)
    ELSE emitDelta([d EXCEPT !.collectingBuffer = Append(@, char)])

processValueChar(d, char) ==
    IF d.unicodeDigitsRemaining > 0
    THEN LET b == [d EXCEPT !.collectingBuffer = Append(@, char),
                            !.unicodeDigitsRemaining = @ - 1]
         IN IF b.unicodeDigitsRemaining = 0
            THEN emitDelta([b EXCEPT !.escapeActive = FALSE])
            ELSE b
    ELSE IF d.escapeActive
    THEN LET b == [d EXCEPT !.collectingBuffer = Append(@, char)]
         IN IF char = LOWER_U
            THEN [b EXCEPT !.unicodeDigitsRemaining = 4]
            ELSE emitDelta([b EXCEPT !.escapeActive = FALSE])
    ELSE IF char = BACKSLASH
    THEN [d EXCEPT !.collectingBuffer = Append(@, char), !.escapeActive = TRUE]
    ELSE IF char = QUOTE
    THEN finalizeValue(d)
    ELSE emitDelta([d EXCEPT !.collectingBuffer = Append(@, char)])

\* one iteration of processChunk's loop: the switch on the stage
processChar(d, char) ==
    CASE d.stage = "SearchingKey" -> processKeyChar(d, char)
      [] d.stage = "AfterKey" -> processPostKeyChar(d, char)
      [] d.stage = "WaitingForStringStart" -> processStringStartChar(d, char)
      [] d.stage = "Collecting" -> processValueChar(d, char)
      [] OTHER -> d

RECURSIVE processChunkFrom(_, _, _)
\* processChunk's for loop from index i on
processChunkFrom(d, chunk, i) ==
    IF i <= Len(chunk) /\ d.stage # "Complete"
    THEN processChunkFrom(processChar(d, chunk[i]), chunk, i + 1)
    ELSE d

\* the match index and the escape state are locals of one processChunk call
processChunk_PerCallScratch(d, chunk) ==
    IF d.stage = "Complete" THEN d
    ELSE processChunkFrom([d EXCEPT !.keyIndex = 0,
                                    !.escapeActive = FALSE,
                                    !.unicodeDigitsRemaining = 0], chunk, 1)

\* a completed decoder is re-armed by the next chunk instead of ignoring it
processChunk_Rearm(d, chunk) ==
    processChunkFrom(IF d.stage = "Complete"
                     THEN [d EXCEPT !.stage = "SearchingKey"] ELSE d, chunk, 1)

processChunk(d, chunk) ==
    IF d.stage = "Complete" THEN d ELSE processChunkFrom(d, chunk, 1)


\* the decoders collect into one buffer: each continues from the buffer the
\* decoder fed before it left behind
RECURSIVE FeedSharingBuffer(_, _, _, _)
FeedSharingBuffer(decs, order, chunk, buffer) ==
    IF order = <<>> THEN decs
    ELSE LET f == Head(order)
             d == processChunk([decs[f] EXCEPT !.collectingBuffer = buffer], chunk)
         IN FeedSharingBuffer([decs EXCEPT ![f] = d], Tail(order), chunk,
                              d.collectingBuffer)

SetToSeq(S) ==
    CHOOSE q \in [1..Cardinality(S) -> S] : \A x \in S : \E i \in DOMAIN q : q[i] = x

onStreamChunk_SharedBuffer(decs, chunk) ==
    LET order == SetToSeq(DOMAIN decs)
    IN FeedSharingBuffer(decs, order, chunk, decs[order[Len(order)]].collectingBuffer)

\* onStreamChunk of the routes: every registered decoder gets the same chunk
onStreamChunk(decs, chunk) ==
    [f \in DOMAIN decs |-> processChunk(decs[f], chunk)]

(***************************************************************************)
(* Decoder harness: the texts a run may stream                             *)
(***************************************************************************)
MaxValueTokens == 2

FieldX == <<120>>
FieldFoo == <<102, 111, 111>>
FieldCommand == <<99, 111, 109, 109, 97, 110, 100>>
FieldExplanation == <<101, 120, 112, 108, 97, 110, 97, 116, 105, 111, 110>>

\* A token of a JSON string body: its raw (escaped) text and the text it denotes
\* according to the JSON grammar (RFC 8259, section 7).
Tok(raw, dec) == [raw |-> raw, dec |-> dec]

PlainTokens == {Tok(<<c>>, <<c>>) : c \in {97, 117}}

EscapeTokens ==
    { Tok(<<92, 110>>, <<10>>),     \* \n
      Tok(<<92, 116>>, <<9>>),      \* \t
      Tok(<<92, 34>>, <<34>>),      \* \"
      Tok(<<92, 92>>, <<92>>),      \* \\
      Tok(<<92, 47>>, <<47>>),      \* \/
      Tok(<<92, 114>>, <<13>>),     \* \r
      Tok(<<92, 98>>, <<8>>),       \* \b
      Tok(<<92, 102>>, <<12>>) }    \* \f

UnicodeTokens ==
    { Tok(<<92, 117, 48, 48, 52, 49>>, <<65>>),       \* A = A
      Tok(<<92, 117, 48, 48, 101, 57>>, <<233>>),     \* é
      Tok(<<92, 117, 48, 48, 50, 50>>, <<34>>),       \* " = "
      Tok(<<92, 117, 68, 56, 51, 68>>, <<55357>>) }   \* \uD83D, a lone surrogate

ValueTokens == PlainTokens \cup EscapeTokens \cup UnicodeTokens

TokenSeqs(S, n) == UNION {[1..k -> S] : k \in 0..n}

RECURSIVE RawOf(_)
RawOf(ts) == IF ts = <<>> THEN <<>> ELSE Head(ts).raw \o RawOf(Tail(ts))

RECURSIVE DecodedOf(_)
DecodedOf(ts) == IF ts = <<>> THEN <<>> ELSE Head(ts).dec \o DecodedOf(Tail(ts))

\* "F" ws1 : ws2 "raw"
Pair(F, ws1, ws2, raw) ==
    keyPattern(F) \o ws1 \o <<COLON>> \o ws2 \o <<QUOTE>> \o raw \o <<QUOTE>>

\* Text before the pair that holds no "F":"..." pair itself: the bare opening
\* brace, F as a string value, F as the key of a number, keys that contain F,
\* and a key that is a proper prefix of F.
Prefixes(F) ==
    { <<123>>,
      <<123>> \o Pair(<<121>>, <<>>, <<>>, F) \o <<44>>,
      <<123>> \o keyPattern(F) \o <<COLON, 49, 44>>,
      <<123>> \o Pair(F \o F, <<>>, <<>>, <<97>>) \o <<44, 32>>,
      <<123>> \o Pair(SubSeq(F, 1, Len(F) - 1), <<>>, <<>>, <<97>>) \o <<44>> }

\* Text after the pair: the closing brace, or a second pair of the same key
Suffixes(F) ==
    { <<125>>, <<44>> \o Pair(F, <<>>, <<>>, <<98>>) \o <<125>> }

Blanks == {<<>>, <<32>>, <<10, 9>>}

Scenario(fields, t, exp) == [fields |-> fields, text |-> t, expected |-> exp]

\* one field, every token sequence up to the bound, in the plain object {"F":"..."}
ValueScenarios ==
    { Scenario({FieldX},
               <<123>> \o Pair(FieldX, <<>>, <<>>, RawOf(ts)) \o <<125>>,
               (FieldX :> DecodedOf(ts))) : ts \in TokenSeqs(ValueTokens, MaxValueTokens) }

\* one field, every surrounding text, a few values
ContextScenarios ==
    UNION { UNION { UNION { UNION { UNION {
        { Scenario({F}, p \o Pair(F, w1, w2, RawOf(ts)) \o s, (F :> DecodedOf(ts)))
            : ts \in TokenSeqs({Tok(<<97>>, <<97>>), Tok(<<92, 34>>, <<34>>)}, 1) }
        : s \in Suffixes(F) } : w2 \in Blanks } : w1 \in Blanks }
        : p \in Prefixes(F) } : F \in {FieldX, FieldFoo} }

\* the streamed texts singled out by the documentation of the decoder
ExampleAbQuoteCd ==     \* {"x":"ab\"cd"}
    Scenario({FieldX},
             <<123, 34, 120, 34, 58, 34, 97, 98, 92, 34, 99, 100, 34, 125>>,
             (FieldX :> <<97, 98, 34, 99, 100>>))

ExampleUnicodeA ==      \* {"x":"A"}
    Scenario({FieldX},
             <<123, 34, 120, 34, 58, 34, 92, 117, 48, 48, 52, 49, 34, 125>>,
             (FieldX :> <<65>>))

ExampleFfoo ==          \* "ffoo"  (no pair in it)
    Scenario({FieldFoo}, <<34, 102, 102, 111, 111, 34>>, <<>>)

ExampleFoFoo ==         \* "fo"foo"  (no pair in it)
    Scenario({FieldFoo}, <<34, 102, 111, 34, 102, 111, 111, 34>>, <<>>)

ExampleKeyTwice ==       \* "x""x":"v"
    Scenario({FieldX}, <<34, 120, 34, 34, 120, 34, 58, 34, 118, 34>>, (FieldX :> <<118>>))

ExampleNumberThenString ==      \* "x":1,"x":"v"
    Scenario({FieldX}, <<34, 120, 34, 58, 49, 44, 34, 120, 34, 58, 34, 118, 34>>,
             (FieldX :> <<118>>))

ExampleTruncated ==      \* {"x":"a\n\u00   (the stream ends inside the value)
    Scenario({FieldX}, <<123, 34, 120, 34, 58, 34, 97, 92, 110, 92, 117, 48, 48>>, <<>>)

\* the object streamed to the generate route: both fields, in either order; a
\* command may quote the other field's name
CommandValues ==
    TokenSeqs({Tok(<<97>>, <<97>>), Tok(<<92, 110>>, <<10>>)}, 1)
        \cup { <<Tok(<<92, 34>>, <<34>>), Tok(FieldExplanation, FieldExplanation)>>,
               <<Tok(<<92, 34>>, <<34>>), Tok(FieldExplanation, FieldExplanation),
                 Tok(<<92, 34>>, <<34>>), Tok(<<58>>, <<58>>),
                 Tok(<<92, 34>>, <<34>>), Tok(<<97>>, <<97>>)>> }

ExplanationValues ==
    TokenSeqs({Tok(<<117>>, <<117>>), Tok(<<92, 117, 48, 48, 52, 49>>, <<65>>)}, 1)

TwoFieldScenarios ==
    UNION { UNION {
        { Scenario({FieldCommand, FieldExplanation},
                   <<123>> \o Pair(FieldCommand, <<>>, <<>>, RawOf(c)) \o <<44>>
                       \o Pair(FieldExplanation, <<>>, <<32>>, RawOf(e)) \o <<125>>,
                   (FieldCommand :> DecodedOf(c)) @@ (FieldExplanation :> DecodedOf(e))),
          Scenario({FieldCommand, FieldExplanation},
                   <<123>> \o Pair(FieldExplanation, <<>>, <<>>, RawOf(e)) \o <<44>>
                       \o Pair(FieldCommand, <<>>, <<>>, RawOf(c)) \o <<125>>,
                   (FieldCommand :> DecodedOf(c)) @@ (FieldExplanation :> DecodedOf(e))) }
        : e \in ExplanationValues } : c \in CommandValues }

\* value texts JSON.parse rejects: an escape JSON does not have, a raw control
\* character, and \u followed by code units that are not hex digits
MalformedValues ==
    { <<92, 113>>,                          \* \q
      <<97, 92, 113, 97, 97>>,              \* a\qaa
      <<97, 9, 97>>,                        \* a, a raw tab, a
      <<92, 117, 48, 48, 122, 122, 97>>,    \* \u00zza
      <<92, 110, 92, 117, 48, 48, 52, 103>> }  \* \n\u004g

\* one field whose value text is malformed, in the plain object {"F":"..."}
MalformedScenarios ==
    { Scenario({FieldX}, <<123>> \o Pair(FieldX, <<>>, <<>>, raw) \o <<125>>, <<>>)
        : raw \in MalformedValues }

DecoderScenarios ==
    ValueScenarios \cup ContextScenarios \cup TwoFieldScenarios \cup MalformedScenarios
        \cup {ExampleAbQuoteCd, ExampleUnicodeA, ExampleFfoo, ExampleFoFoo,
              ExampleKeyTwice, ExampleNumberThenString, ExampleTruncated}

(***************************************************************************)
(* Decoder harness: a text is fed in consecutive chunks of any length      *)
(***************************************************************************)
InitDecoder ==
    \E sc \in DecoderScenarios :
        /\ text = sc.text
        /\ expected = sc.expected
        /\ pos = 0
        /\ cuts = {}
        /\ decoders = [f \in sc.fields |-> NewDecoder(f)]
        /\ route = "none"
        /\ session = <<>>
        /\ controller = <<>>
        /\ prisma = <<>>
        /\ generator = <<>>
        /\ now = 0

\* where a chunk boundary falls for a decoder: right after the backslash of an
\* escape, between \u and its digits, between two of the 4 hex digits
CutKind(d) ==
    IF d.stage # "Collecting" \/ ~d.escapeActive THEN {}
    ELSE IF d.collectingBuffer[Len(d.collectingBuffer)] = BACKSLASH
            /\ d.unicodeDigitsRemaining = 0 THEN {"afterBackslash"}
    ELSE IF d.unicodeDigitsRemaining = 4 THEN {"afterU"}
    ELSE {"insideHex"}

\* the producer hands the next n characters of the text to onStreamChunk
FeedChunk ==
    \E n \in 1..(Len(text) - pos) :
        /\ decoders' = onStreamChunk(decoders, SubSeq(text, pos + 1, pos + n))
        /\ pos' = pos + n
        /\ cuts' = cuts \cup UNION {CutKind(decoders'[f]) : f \in DOMAIN decoders}
        /\ UNCHANGED <<text, expected>>
        /\ UNCHANGED pipelineVars

NextDecoder == FeedChunk

SpecDecoder == InitDecoder /\ [][NextDecoder]_vars

(***************************************************************************)
(* Key search harness: every short text over a small alphabet, one decoder *)
(***************************************************************************)
MaxKeyTextLen == 6

\* quote, f, o, colon
KeyAlphabet == {QUOTE, 102, 111, COLON}

\* field names without a double quote: f, fo, ff, :f
KeyFields == {<<102>>, <<102, 111>>, <<102, 102>>, <<COLON, 102>>}

KeyTexts == UNION {[1..n -> KeyAlphabet] : n \in 1..MaxKeyTextLen}

InitKeySearch ==
    \E F \in KeyFields : \E t \in KeyTexts :
        /\ text = t
        /\ expected = <<>>
        /\ pos = 0
        /\ cuts = {}
        /\ decoders = (F :> NewDecoder(F))
        /\ route = "none"
        /\ session = <<>>
        /\ controller = <<>>
        /\ prisma = <<>>
        /\ generator = <<>>
        /\ now = 0

SpecKeySearch == InitKeySearch /\ [][NextDecoder]_vars

\* the deltas a decoder has emitted, concatenated
RECURSIVE DeltasOf(_)
DeltasOf(calls) ==
    IF calls = <<>> THEN <<>>
    ELSE (IF Head(calls).listener = "onDelta" THEN Head(calls).delta ELSE <<>>)
            \o DeltasOf(Tail(calls))

Completions(calls) == SelectSeq(calls, LAMBDA c : c.listener = "onComplete")

AllFed == pos = Len(text)


(***************************************************************************)
(* Texts of the routes and of the producer                                 *)
(***************************************************************************)
TextProcessing == <<80, 114, 111, 99, 101, 115, 115, 105, 110, 103, 32, 99, 111, 109, 109, 97, 110, 100, 46, 46, 46>>  \* Processing command...
TextComplete == <<67, 111, 109, 112, 108, 101, 116, 101>>  \* Complete
TextFailed == <<70, 97, 105, 108, 101, 100>>  \* Failed
TextUnknownError == <<85, 110, 107, 110, 111, 119, 110, 32, 101, 114, 114, 111, 114>>  \* Unknown error
TextErrorPrefix == <<69, 114, 114, 111, 114, 58, 32>>  \* "Error: "
TextNoApiKey == <<79, 80, 69, 78, 65, 73, 95, 65, 80, 73, 95, 75, 69, 89, 32, 105, 115, 32, 110, 111, 116, 32, 99, 111, 110, 102, 105, 103, 117, 114, 101, 100, 46>>  \* OPENAI_API_KEY is not configured.
TextAgentUndefined == <<65, 103, 101, 110, 116, 32, 114, 101, 115, 117, 108, 116, 32, 105, 115, 32, 117, 110, 100, 101, 102, 105, 110, 101, 100>>  \* Agent result is undefined
TextInvalidState == <<73, 110, 118, 97, 108, 105, 100, 32, 115, 116, 97, 116, 101>>  \* Invalid state (the TypeError of a closed controller)
TextDbDown == <<100, 98, 32, 100, 111, 119, 110>>  \* db down (a failing prisma query)
TextBoom == <<98, 111, 111, 109>>  \* boom (a failing model run)
TextBoomLine == <<98, 111, 111, 109, 10>>  \* boom and a line feed (a failing model run)
NEWLINE == 10

(***************************************************************************)
(* runExecute: the structured event producer                               *)
(***************************************************************************)
StatusProcessing == [kind |-> "status", data |-> [message |-> TextProcessing]]

TokenEvent(t) == [kind |-> "token", data |-> [text |-> t]]

StderrEvent(m) == [kind |-> "stderr", data |-> [message |-> m]]

\* usage?.inputTokens ?? 0, usage?.outputTokens ?? 0
StatusComplete(usage) ==
    [kind |-> "status",
     data |-> [message |-> TextComplete,
               exitCode |-> 0,
               tokensIn |-> IF "inputTokens" \in DOMAIN usage THEN usage.inputTokens ELSE 0,
               tokensOut |-> IF "outputTokens" \in DOMAIN usage THEN usage.outputTokens ELSE 0]]

StatusFailed == [kind |-> "status", data |-> [message |-> TextFailed, exitCode |-> 1]]

\* the output passed on as the model returned it
normalizedOutput_Raw(rawOutput) == rawOutput

\* the output normalised to end with a newline
normalizedOutput(rawOutput) ==
    IF Len(rawOutput) = 0 THEN <<NEWLINE>>
    ELSE IF rawOutput[Len(rawOutput)] = NEWLINE THEN rawOutput
    ELSE Append(rawOutput, NEWLINE)

\* what the model run may return as finalOutput.output, and as usage
AgentOutputs == {<<>>, <<97>>, <<97, 10>>}
AgentUsages == {<<>>, [inputTokens |-> 12, outputTokens |-> 3]}

\* the messages a failing model run may carry (an Error with or without a message,
\* the missing output, a thrown value that is no Error)
RunFailures == {TextBoom, TextBoomLine, <<>>, TextAgentUndefined, TextUnknownError}

NewGenerator == [pc |-> "start", usage |-> <<>>]

(***************************************************************************)
(* The execute route: createExecuteStream                                  *)
(***************************************************************************)
FlushIntervalMs == 200
ClockStepMs == 100
MaxClockSteps == 4

SessionId == "s1"

NullOutput == [isNull |-> TRUE, text |-> <<>>]
TextOutput(t) == [isNull |-> FALSE, text |-> t]

RECURSIVE trimStart(_)
trimStart(t) ==
    IF t # <<>> /\ Head(t) \in WHITESPACE_REGEX THEN trimStart(Tail(t)) ELSE t

RECURSIVE trimEnd(_)
trimEnd(t) ==
    IF t # <<>> /\ t[Len(t)] \in WHITESPACE_REGEX
    THEN trimEnd(SubSeq(t, 1, Len(t) - 1)) ELSE t

\* String.prototype.trim
trim(t) == trimEnd(trimStart(t))

\* appendErrorText, first half: the text of an object payload
ErrorPayloadText(payload) ==
    IF "message" \in DOMAIN payload THEN payload.message
    ELSE IF "text" \in DOMAIN payload THEN payload.text
    ELSE <<>>

\* appendErrorText, second half: the buffer with the text appended on a new line
appendErrorText(buffer, t) ==
    IF t = <<>> THEN buffer
    ELSE IF buffer # <<>> THEN buffer \o <<NEWLINE>> \o t
    ELSE t

\* the locals of start() at its first line
NewSession ==
    [ pc |-> "history",
      startTime |-> 0,
      outputBuffer |-> <<>>,
      errorBuffer |-> <<>>,
      tokensIn |-> 0,
      tokensOut |-> 0,
      encounteredError |-> FALSE,
      eventBatch |-> <<>>,
      lastFlush |-> 0,
      loopNow |-> 0,
      latest |-> <<>>,
      commandId |-> "c1",   \* the commandId parameter of createExecuteStream
      flushCalls |-> 0,     \* history: how often flushEvents was called
      consumed |-> <<>>,    \* history: the events pulled from the generator
      threw |-> FALSE ]     \* history: start() ended by throwing

NewController == [state |-> "readable", queue |-> <<>>]

NewPrisma == [terminalEvent |-> <<>>, command |-> <<>>]

\* The state start() works on: w.s its locals, w.c the controller, w.p prisma.
World(s, c, p) == [s |-> s, c |-> c, p |-> p]

\* controller.enqueue and controller.close throw unless the stream is readable
CanCloseOrEnqueue(c) == c.state = "readable"

enqueue(w, event) == [w EXCEPT !.c.queue = Append(@, event)]

\* the done event is enqueued in the finally block, on the failure path too
Finally_EnqueuesDone(w, thrown) ==
    IF CanCloseOrEnqueue(w.c)
    THEN [w EXCEPT !.c.queue = Append(@, [kind |-> "done"]),
                   !.c.state = "closed", !.s.pc = "ended", !.s.threw = thrown]
    ELSE [w EXCEPT !.s.pc = "ended", !.s.threw = TRUE]

\* the finally block: controller.close(), which throws on a cancelled stream
Finally(w, thrown) ==
    IF CanCloseOrEnqueue(w.c)
    THEN [w EXCEPT !.c.state = "closed", !.s.pc = "ended", !.s.threw = thrown]
    ELSE [w EXCEPT !.s.pc = "ended", !.s.threw = TRUE]

\* the batch is handed to createMany but not spliced out of eventBatch
flushEvents_KeepsBatch(w) ==
    IF Len(w.s.eventBatch) = 0
    THEN [w EXCEPT !.s.flushCalls = @ + 1]
    ELSE [w EXCEPT !.s.flushCalls = @ + 1,
                   !.p.terminalEvent =
                        Append(@, [data |-> w.s.eventBatch, state |-> "pending"])]

\* flushEvents up to its await: nothing to do on an empty batch, else the batch
\* is spliced out and handed to terminalEvent.createMany
flushEvents(w) ==
    IF Len(w.s.eventBatch) = 0
    THEN [w EXCEPT !.s.flushCalls = @ + 1]
    ELSE [w EXCEPT !.s.flushCalls = @ + 1,
                   !.s.eventBatch = <<>>,
                   !.p.terminalEvent =
                        Append(@, [data |-> w.s.eventBatch, state |-> "pending"])]

\* whether the flushEvents call that produced w is waiting for createMany
AwaitsCreateMany(before, w) == Len(w.p.terminalEvent) > Len(before.p.terminalEvent)

\* the error text is never used: null is persisted whenever there is no output
finalize_DropsErrorText(w, clock) ==
    LET latencyMs == clock - w.s.startTime
        finalOutput ==
            IF Len(w.s.outputBuffer) > 0 THEN TextOutput(w.s.outputBuffer)
            ELSE NullOutput
    IN [w EXCEPT !.p.command =
            Append(@, [id |-> w.s.commandId,
                       output |-> finalOutput, latencyMs |-> latencyMs,
                       tokensIn |-> w.s.tokensIn, tokensOut |-> w.s.tokensOut,
                       state |-> "pending"])]

\* finalize up to the await in finalizeCommandRecord: command.update is issued
finalize(w, clock) ==
    LET latencyMs == clock - w.s.startTime
        finalOutput ==
            IF Len(w.s.outputBuffer) > 0 THEN TextOutput(w.s.outputBuffer)
            ELSE IF w.s.encounteredError /\ Len(w.s.errorBuffer) > 0
            THEN TextOutput(trim(TextErrorPrefix \o w.s.errorBuffer))
            ELSE NullOutput
    IN [w EXCEPT !.p.command =
            Append(@, [id |-> w.s.commandId,
                       output |-> finalOutput, latencyMs |-> latencyMs,
                       tokensIn |-> w.s.tokensIn, tokensOut |-> w.s.tokensOut,
                       state |-> "pending"])]

\* await flushEvents(); await finalize(): up to the first write that is awaited
FlushThenFinalize(w, clock, flushPc, finalizePc) ==
    LET flushed == flushEvents(w) IN
    IF AwaitsCreateMany(w, flushed)
    THEN [flushed EXCEPT !.s.pc = flushPc]
    ELSE [finalize(flushed, clock) EXCEPT !.s.pc = finalizePc]

\* the catch block, entered with the message of what was thrown
Catch(w, errorMsg, clock) ==
    LET marked == [w EXCEPT !.s.encounteredError = TRUE,
                            !.s.errorBuffer = appendErrorText(@, errorMsg)]
    IN IF ~CanCloseOrEnqueue(marked.c)
       THEN Finally(marked, TRUE)
       ELSE FlushThenFinalize(
                enqueue(marked, [kind |-> "error", data |-> [message |-> errorMsg]]),
                clock, "catchFlush", "catchFinalize")

\* a status event adds its counters to the running totals
Accumulate_SumsCounters(s, event) ==
    IF event.kind = "token"
    THEN [s EXCEPT !.outputBuffer = @ \o event.data.text]
    ELSE IF event.kind = "stderr"
    THEN [s EXCEPT !.encounteredError = TRUE,
                   !.errorBuffer = appendErrorText(@, ErrorPayloadText(event.data))]
    ELSE IF event.kind = "status"
    THEN [s EXCEPT
            !.tokensIn = IF "tokensIn" \in DOMAIN event.data THEN @ + event.data.tokensIn ELSE @,
            !.tokensOut = IF "tokensOut" \in DOMAIN event.data THEN @ + event.data.tokensOut ELSE @,
            !.encounteredError =
                IF "exitCode" \in DOMAIN event.data /\ event.data.exitCode # 0
                THEN TRUE ELSE @]
    ELSE s

\* a status event assigns the flag from its exit code instead of only raising it
Accumulate_StatusAssignsFlag(s, event) ==
    IF event.kind = "token"
    THEN [s EXCEPT !.outputBuffer = @ \o event.data.text]
    ELSE IF event.kind = "stderr"
    THEN [s EXCEPT !.encounteredError = TRUE,
                   !.errorBuffer = appendErrorText(@, ErrorPayloadText(event.data))]
    ELSE IF event.kind = "status"
    THEN [s EXCEPT
            !.tokensIn = IF "tokensIn" \in DOMAIN event.data THEN event.data.tokensIn ELSE @,
            !.tokensOut = IF "tokensOut" \in DOMAIN event.data THEN event.data.tokensOut ELSE @,
            !.encounteredError =
                IF "exitCode" \in DOMAIN event.data THEN event.data.exitCode # 0 ELSE @]
    ELSE s

\* the accumulation of one event into the buffers and counters
Accumulate(s, event) ==
    IF event.kind = "token"
    THEN [s EXCEPT !.outputBuffer = @ \o event.data.text]
    ELSE IF event.kind = "stderr"
    THEN [s EXCEPT !.encounteredError = TRUE,
                   !.errorBuffer = appendErrorText(@, ErrorPayloadText(event.data))]
    ELSE IF event.kind = "status"
    THEN [s EXCEPT
            !.tokensIn = IF "tokensIn" \in DOMAIN event.data THEN event.data.tokensIn ELSE @,
            !.tokensOut = IF "tokensOut" \in DOMAIN event.data THEN event.data.tokensOut ELSE @,
            !.encounteredError =
                IF "exitCode" \in DOMAIN event.data /\ event.data.exitCode # 0
                THEN TRUE ELSE @]
    ELSE s

Persisted(event) == [sessionId |-> SessionId, kind |-> event.kind, data |-> event.data]

\* the flush is due as soon as the interval has elapsed (>= instead of >)
LoopBody_FlushAtInterval(w, event, clock) ==
    LET pulled == [w EXCEPT !.s.consumed = Append(@, event)] IN
    IF ~CanCloseOrEnqueue(pulled.c)
    THEN Catch(pulled, TextInvalidState, clock)
    ELSE LET sent == enqueue(pulled, event)
             pushed == [sent EXCEPT !.s.eventBatch = Append(@, Persisted(event))]
             counted == [pushed EXCEPT !.s = Accumulate(@, event)]
         IN IF clock - counted.s.lastFlush >= FlushIntervalMs
            THEN [flushEvents(counted) EXCEPT !.s.pc = "loopFlush", !.s.loopNow = clock]
            ELSE [counted EXCEPT !.s.pc = "pull"]

\* the body of the for-await loop for one event, up to its await (if any)
LoopBody(w, event, clock) ==
    LET pulled == [w EXCEPT !.s.consumed = Append(@, event)] IN
    IF ~CanCloseOrEnqueue(pulled.c)
    THEN Catch(pulled, TextInvalidState, clock)
    ELSE LET sent == enqueue(pulled, event)
             pushed == [sent EXCEPT !.s.eventBatch = Append(@, Persisted(event))]
             counted == [pushed EXCEPT !.s = Accumulate(@, event)]
         IN IF clock - counted.s.lastFlush > FlushIntervalMs
            THEN [flushEvents(counted) EXCEPT !.s.pc = "loopFlush", !.s.loopNow = clock]
            ELSE [counted EXCEPT !.s.pc = "pull"]

\* the done event is enqueued as soon as the loop ends, before the final writes
AfterLoop_DoneFirst(w, clock) ==
    FlushThenFinalize(IF CanCloseOrEnqueue(w.c) THEN enqueue(w, [kind |-> "done"]) ELSE w,
                      clock, "endFlush", "endFinalize")

\* after the loop: flush, finalize, then the done event
AfterLoop(w, clock) == FlushThenFinalize(w, clock, "endFlush", "endFinalize")

\* a rejected createMany is not caught in flushEvents: it reaches the catch block
AfterCreateMany_Rethrows(w, clock) ==
    IF w.p.terminalEvent[Len(w.p.terminalEvent)].state = "failed"
    THEN IF w.s.pc = "catchFlush" THEN Finally(w, TRUE) ELSE Catch(w, TextDbDown, clock)
    ELSE CASE w.s.pc = "loopFlush" -> [w EXCEPT !.s.lastFlush = w.s.loopNow, !.s.pc = "pull"]
           [] w.s.pc = "endFlush" -> [finalize(w, clock) EXCEPT !.s.pc = "endFinalize"]
           [] w.s.pc = "catchFlush" -> [finalize(w, clock) EXCEPT !.s.pc = "catchFinalize"]

\* createMany returned or threw (caught and logged in flushEvents): start() goes on
AfterCreateMany(w, clock) ==
    CASE w.s.pc = "loopFlush" -> [w EXCEPT !.s.lastFlush = w.s.loopNow, !.s.pc = "pull"]
      [] w.s.pc = "endFlush" -> [finalize(w, clock) EXCEPT !.s.pc = "endFinalize"]
      [] w.s.pc = "catchFlush" -> [finalize(w, clock) EXCEPT !.s.pc = "catchFinalize"]

\* command.update returned or threw (caught and logged in finalizeCommandRecord)
AfterUpdate(w, clock) ==
    IF w.s.pc = "endFinalize"
    THEN IF CanCloseOrEnqueue(w.c)
         THEN Finally(enqueue(w, [kind |-> "done"]), FALSE)
         ELSE Catch(w, TextInvalidState, clock)
    ELSE Finally(w, FALSE)

SetLast(calls, state) == [calls EXCEPT ![Len(calls)].state = state]

TheWorld == World(session, controller, prisma)

Becomes(w) ==
    /\ session' = w.s
    /\ controller' = w.c
    /\ prisma' = w.p

InitExecute ==
    /\ route = "execute"
    /\ session = NewSession
    /\ controller = NewController
    /\ prisma = NewPrisma
    /\ generator = NewGenerator
    /\ now = 0
    /\ text = <<>>
    /\ expected = <<>>
    /\ pos = 0
    /\ cuts = {}
    /\ decoders = <<>>

\* await getCommandHistory(sessionId) returns
HistoryReturns ==
    /\ route = "execute"
    /\ session.pc = "history"
    /\ session' = [session EXCEPT !.pc = "pull"]
    /\ UNCHANGED <<controller, prisma, generator, now, route>>
    /\ UNCHANGED decoderVars

\* await getCommandHistory(sessionId) throws (the query failed)
HistoryThrows ==
    /\ route = "execute"
    /\ session.pc = "history"
    /\ Becomes(Catch(TheWorld, TextDbDown, now))
    /\ UNCHANGED <<generator, now, route>>
    /\ UNCHANGED decoderVars

\* the first pull: ensureApiKey throws before anything is yielded
PullThrows ==
    /\ route = "execute"
    /\ session.pc = "pull"
    /\ generator.pc = "start"
    /\ generator' = [generator EXCEPT !.pc = "finished"]
    /\ Becomes(Catch(TheWorld, TextNoApiKey, now))
    /\ UNCHANGED <<now, route>>
    /\ UNCHANGED decoderVars

\* the first pull yields the status event "Processing command..."
PullProcessing ==
    /\ route = "execute"
    /\ session.pc = "pull"
    /\ generator.pc = "start"
    /\ generator' = [generator EXCEPT !.pc = "running"]
    /\ Becomes(LoopBody(TheWorld, StatusProcessing, now))
    /\ UNCHANGED <<now, route>>
    /\ UNCHANGED decoderVars

\* the model run returned an output: the token event is yielded
PullToken ==
    /\ route = "execute"
    /\ session.pc = "pull"
    /\ generator.pc = "running"
    /\ \E rawOutput \in AgentOutputs, usage \in AgentUsages :
          /\ generator' = [generator EXCEPT !.pc = "afterToken", !.usage = usage]
          /\ Becomes(LoopBody(TheWorld, TokenEvent(normalizedOutput(rawOutput)), now))
    /\ UNCHANGED <<now, route>>
    /\ UNCHANGED decoderVars

\* the model run failed or returned no output: the stderr event is yielded
PullStderr ==
    /\ route = "execute"
    /\ session.pc = "pull"
    /\ generator.pc = "running"
    /\ \E message \in RunFailures :
          /\ generator' = [generator EXCEPT !.pc = "afterStderr"]
          /\ Becomes(LoopBody(TheWorld, StderrEvent(message), now))
    /\ UNCHANGED <<now, route>>
    /\ UNCHANGED decoderVars

\* the closing status event is yielded: Complete after a token, Failed after stderr
PullStatus ==
    /\ route = "execute"
    /\ session.pc = "pull"
    /\ generator.pc \in {"afterToken", "afterStderr"}
    /\ generator' = [generator EXCEPT !.pc = "finished"]
    /\ Becomes(LoopBody(TheWorld,
                        IF generator.pc = "afterToken"
                        THEN StatusComplete(generator.usage) ELSE StatusFailed,
                        now))
    /\ UNCHANGED <<now, route>>
    /\ UNCHANGED decoderVars

\* the generator returns: the loop ends
PullDone ==
    /\ route = "execute"
    /\ session.pc = "pull"
    /\ generator.pc = "finished"
    /\ Becomes(AfterLoop(TheWorld, now))
    /\ UNCHANGED <<generator, now, route>>
    /\ UNCHANGED decoderVars

\* terminalEvent.createMany returns, or throws
CreateManySettles ==
    /\ route = "execute"
    /\ session.pc \in {"loopFlush", "endFlush", "catchFlush"}
    /\ \E outcome \in {"ok", "failed"} :
          Becomes(AfterCreateMany(
              [TheWorld EXCEPT !.p.terminalEvent = SetLast(@, outcome)], now))
    /\ UNCHANGED <<generator, now, route>>
    /\ UNCHANGED decoderVars

\* command.update returns, or throws
UpdateSettles ==
    /\ route = "execute"
    /\ session.pc \in {"endFinalize", "catchFinalize"}
    /\ \E outcome \in {"ok", "failed"} :
          Becomes(AfterUpdate([TheWorld EXCEPT !.p.command = SetLast(@, outcome)], now))
    /\ UNCHANGED <<generator, now, route>>
    /\ UNCHANGED decoderVars

\* the client goes away while start() is suspended: the stream is cancelled
ClientDisconnects ==
    /\ route \in {"execute", "generate", "explain"}
    /\ session.pc # "ended"
    /\ controller.state = "readable"
    /\ controller' = [controller EXCEPT !.state = "cancelled"]
    /\ UNCHANGED <<session, prisma, generator, now, route>>
    /\ UNCHANGED decoderVars

\* time passes while start() is suspended
Tick ==
    /\ route \in {"execute", "generate", "explain"}
    /\ session.pc # "ended"
    /\ now < MaxClockSteps * ClockStepMs
    /\ now' = now + ClockStepMs
    /\ UNCHANGED <<session, controller, prisma, generator, route>>
    /\ UNCHANGED decoderVars

NextExecute ==
    \/ HistoryReturns
    \/ HistoryThrows
    \/ PullThrows
    \/ PullProcessing
    \/ PullToken
    \/ PullStderr
    \/ PullStatus
    \/ PullDone
    \/ CreateManySettles
    \/ UpdateSettles

(***************************************************************************)
(* The field-extraction routes: generate (command, explanation) and        *)
(* explain (explanation)                                                   *)
(***************************************************************************)
\* the decoders a route registers, in the order onStreamChunk feeds them
RouteFields(r) ==
    IF r = "generate" THEN <<FieldCommand, FieldExplanation>> ELSE <<FieldExplanation>>

Range(q) == {q[i] : i \in DOMAIN q}

\* the objects the model streams to the routes: short values, either field order
RouteValues(F) ==
    IF F = FieldCommand
    THEN {<<>>, <<Tok(<<97>>, <<97>>)>>}
    ELSE {<<Tok(<<117>>, <<117>>)>>, <<Tok(<<92, 117, 48, 48, 52, 49>>, <<65>>)>>,
          <<Tok(<<117>>, <<117>>), Tok(<<92, 117, 48, 48, 52, 49>>, <<65>>)>>}

GenerateScenarios ==
    UNION { UNION {
        { Scenario({FieldCommand, FieldExplanation},
                   <<123>> \o Pair(FieldCommand, <<>>, <<>>, RawOf(c)) \o <<44>>
                       \o Pair(FieldExplanation, <<>>, <<>>, RawOf(e)) \o <<125>>,
                   (FieldCommand :> DecodedOf(c)) @@ (FieldExplanation :> DecodedOf(e))),
          Scenario({FieldCommand, FieldExplanation},
                   <<123>> \o Pair(FieldExplanation, <<>>, <<>>, RawOf(e)) \o <<44>>
                       \o Pair(FieldCommand, <<>>, <<>>, RawOf(c)) \o <<125>>,
                   (FieldCommand :> DecodedOf(c)) @@ (FieldExplanation :> DecodedOf(e))) }
        : e \in RouteValues(FieldExplanation) } : c \in RouteValues(FieldCommand) }

ExplainScenarios ==
    { Scenario({FieldExplanation},
               <<123>> \o Pair(FieldExplanation, <<>>, <<>>, RawOf(e)) \o <<125>>,
               (FieldExplanation :> DecodedOf(e))) : e \in RouteValues(FieldExplanation) }

RouteScenarios(r) == IF r = "generate" THEN GenerateScenarios ELSE ExplainScenarios

\* the longest chunk the producer hands over at once
MaxChunkLen == 4

Min(a, b) == IF a < b THEN a ELSE b

DeltaEvent(call) ==
    [kind |-> "delta", data |-> [field |-> call.field, text |-> call.delta]]

\* the onDelta listener of a route, run for one listener call of a decoder: the
\* latest value is kept, the delta enqueued; enqueue throws on a cancelled stream,
\* which the decoder's try/catch around the listener call swallows
RouteListener(w, call) ==
    IF call.listener # "onDelta" THEN w
    ELSE LET kept == [w EXCEPT !.s.latest[call.field] = call.value]
         IN IF CanCloseOrEnqueue(kept.c) THEN enqueue(kept, DeltaEvent(call)) ELSE kept

RECURSIVE RunListeners(_, _)
RunListeners(w, calls) ==
    IF calls = <<>> THEN w
    ELSE RunListeners(RouteListener(w, Head(calls)), Tail(calls))

\* the listener calls a chunk caused, decoder after decoder in the order fed
RECURSIVE NewCalls(_, _, _)
NewCalls(before, after, order) ==
    IF order = <<>> THEN <<>>
    ELSE LET f == Head(order)
         IN SubSeq(after[f].calls, Len(before[f].calls) + 1, Len(after[f].calls))
                \o NewCalls(before, after, Tail(order))

\* runSuggest / runExplain resolved: createAgentRunResult
AgentRunResult(output, usage, latencyMs) ==
    [output |-> output,
     usageInputTokens |-> IF "inputTokens" \in DOMAIN usage THEN usage.inputTokens ELSE 0,
     usageOutputTokens |-> IF "outputTokens" \in DOMAIN usage THEN usage.outputTokens ELSE 0,
     latencyMs |-> latencyMs]

\* latestX || result.output.X
OrElse(latest, fallback) == IF Len(latest) > 0 THEN latest ELSE fallback

finalPayload(r, s, result) ==
    LET merged == [f \in Range(RouteFields(r)) |-> OrElse(s.latest[f], result.output[f])]
        counters == [tokensIn |-> result.usageInputTokens,
                     tokensOut |-> result.usageOutputTokens,
                     latencyMs |-> result.latencyMs]
    IN IF r = "generate"
       THEN [command |-> merged[FieldCommand], explanation |-> merged[FieldExplanation]]
                @@ counters
       ELSE [explanation |-> merged[FieldExplanation]] @@ counters

\* the catch block of a field route
FieldCatch(w, message) ==
    IF CanCloseOrEnqueue(w.c)
    THEN Finally(enqueue(w, [kind |-> "error", data |-> [message |-> message]]), FALSE)
    ELSE Finally(w, TRUE)

\* the end of the try block: result, done; enqueue throws on a cancelled stream
FieldResult(w, r, result) ==
    IF CanCloseOrEnqueue(w.c)
    THEN Finally(enqueue(enqueue(w, [kind |-> "result",
                                     data |-> finalPayload(r, w.s, result)]),
                         [kind |-> "done"]), FALSE)
    ELSE FieldCatch(w, TextInvalidState)

InitFields ==
    \E r \in {"generate", "explain"} : \E sc \in RouteScenarios(r) :
        /\ route = r
        /\ text = sc.text
        /\ expected = sc.expected
        /\ pos = 0
        /\ cuts = {}
        /\ decoders = <<>>
        /\ session = [NewSession EXCEPT !.latest = [f \in sc.fields |-> <<>>]]
        /\ controller = NewController
        /\ prisma = NewPrisma
        /\ generator = NewGenerator
        /\ now = 0

\* getCommandHistory returns: the decoders are created and the producer is called
FieldHistoryReturns ==
    /\ route \in {"generate", "explain"}
    /\ session.pc = "history"
    /\ decoders' = [f \in Range(RouteFields(route)) |-> NewDecoder(f)]
    /\ session' = [session EXCEPT !.pc = "run", !.startTime = now]
    /\ generator' = [generator EXCEPT !.pc = "running"]
    /\ UNCHANGED <<text, expected, pos, cuts, route, controller, prisma, now>>

\* getCommandHistory throws
FieldHistoryThrows ==
    /\ route \in {"generate", "explain"}
    /\ session.pc = "history"
    /\ Becomes(FieldCatch(TheWorld, TextDbDown))
    /\ UNCHANGED <<generator, now, route>>
    /\ UNCHANGED decoderVars

\* the producer streams the next n characters of the model's text: onStreamChunk
StreamChunk ==
    /\ route \in {"generate", "explain"}
    /\ session.pc = "run"
    /\ \E n \in 1..Min(MaxChunkLen, Len(text) - pos) :
          LET fed == onStreamChunk(decoders, SubSeq(text, pos + 1, pos + n)) IN
          /\ decoders' = fed
          /\ pos' = pos + n
          /\ Becomes(RunListeners(TheWorld, NewCalls(decoders, fed, RouteFields(route))))
    /\ UNCHANGED <<text, expected, cuts, generator, now, route>>

\* runSuggest / runExplain resolves with the structured result
RunReturns ==
    /\ route \in {"generate", "explain"}
    /\ session.pc = "run"
    /\ \E usage \in AgentUsages :
          Becomes(FieldResult(TheWorld, route,
                              AgentRunResult(expected, usage, now - session.startTime)))
    /\ generator' = [generator EXCEPT !.pc = "finished"]
    /\ UNCHANGED <<now, route>>
    /\ UNCHANGED decoderVars

\* runSuggest / runExplain rejects: no API key, a failing run, no final output
RunThrows ==
    /\ route \in {"generate", "explain"}
    /\ session.pc = "run"
    /\ \E message \in {TextNoApiKey, TextBoom, TextAgentUndefined} :
          Becomes(FieldCatch(TheWorld, message))
    /\ generator' = [generator EXCEPT !.pc = "finished"]
    /\ UNCHANGED <<now, route>>
    /\ UNCHANGED decoderVars

NextFields ==
    \/ FieldHistoryReturns
    \/ FieldHistoryThrows
    \/ StreamChunk
    \/ RunReturns
    \/ RunThrows

(***************************************************************************)
(* The route handlers (GET / POST of the execute route, POST of the        *)
(* generate and explain routes) serving several requests, and the execute  *)
(* pipelines they create, interleaved at their awaits                      *)
(***************************************************************************)
Requests == {"r1", "r2"}

\* the requests are named in the order they arrive
ArrivesBefore(p, r) == p = "r1" /\ r = "r2"

UserId == "u1"

\* the terminalSession table: id -> userId
TerminalSessions == ("s1" :> "u1") @@ ("s2" :> "u2")

InputLs == <<108, 115>>         \* ls
InputPwd == <<112, 119, 100>>   \* pwd

\* the ids prisma gives to command rows, in the order of creation
CommandIds == <<"c1", "c2", "c3", "c4">>

\* the command table when the requests arrive: one row in the user's session and
\* one in the session of another user, both created by their clients
InitialCommands ==
    <<[id |-> "c1", sessionId |-> "s1", input |-> InputLs,
       output |-> NullOutput, writes |-> 0, createdBy |-> "client"],
      [id |-> "c2", sessionId |-> "s2", input |-> InputLs,
       output |-> NullOutput, writes |-> 0, createdBy |-> "client"]>>

\* !value of JavaScript for a string parameter: null, undefined and '' are falsy
Falsy(v) == v.isNull \/ v.text = <<>>

\* the parameters a request may carry (id / sessionId, cmd / input / goal /
\* command, commandId); an absent id is the empty string
RequestParams ==
    [ endpoint : {"execute", "generate", "explain"},
      sessionId : {"", "s1", "s2"},
      input : {NullOutput, TextOutput(<<>>), TextOutput(InputLs), TextOutput(InputPwd)},
      commandId : {"", "c1", "c2"} ]

\* the requests the handlers go on with: an execute request may name a command
\* row, the other endpoints take no commandId
WellFormedParams ==
    { q \in RequestParams : q.endpoint # "execute" => q.commandId = "" }

\* terminalSession.findFirst ignores the userId
findSession_AnyOwner(sessionId, userId) == sessionId \in DOMAIN TerminalSessions

\* prisma.terminalSession.findFirst({ where: { id: sessionId, userId } }) found a row
findSession(sessionId, userId) ==
    sessionId \in DOMAIN TerminalSessions /\ TerminalSessions[sessionId] = userId

\* command.findFirst by id alone, whatever session the row belongs to
findById_AnySession(rows, commandId, sessionId) ==
    {i \in DOMAIN rows : rows[i].id = commandId}

\* prisma.command.findFirst({ where: { id: commandId, sessionId } }): the indexes found
findById(rows, commandId, sessionId) ==
    {i \in DOMAIN rows : rows[i].id = commandId /\ rows[i].sessionId = sessionId}

\* prisma.command.findFirst({ where: { sessionId, input }, orderBy: createdAt desc })
findByInput(rows, sessionId, input) ==
    {i \in DOMAIN rows :
        /\ rows[i].sessionId = sessionId /\ rows[i].input = input
        /\ \A j \in DOMAIN rows :
              (rows[j].sessionId = sessionId /\ rows[j].input = input) => j <= i}

\* a request the handler has not received yet / is working on / has answered
NewRequest == [pc |-> "idle", req |-> <<>>, status |-> 0]

NoController == [state |-> "none", queue |-> <<>>]

NoGenerator == [pc |-> "none", usage |-> <<>>]

\* the buffers, the counters and the batch are module-level variables: what one
\* pipeline assigns, every running pipeline sees
StoreLocals_SharedBuffers(sessions, r, s) ==
    [q \in DOMAIN sessions |->
        IF q = r THEN s
        ELSE IF "outputBuffer" \in DOMAIN sessions[q] /\ "outputBuffer" \in DOMAIN s
        THEN [sessions[q] EXCEPT !.outputBuffer = s.outputBuffer,
                                 !.errorBuffer = s.errorBuffer,
                                 !.encounteredError = s.encounteredError,
                                 !.tokensIn = s.tokensIn,
                                 !.tokensOut = s.tokensOut,
                                 !.eventBatch = s.eventBatch]
        ELSE sessions[q]]

\* the locals of start() belong to one call of it
StoreLocals(sessions, r, s) == [sessions EXCEPT ![r] = s]

\* the world start() of request r works on
WorldOf(r) == World(session[r], controller[r], prisma.log[r])

Put(r, w) ==
    /\ session' = StoreLocals(session, r, w.s)
    /\ controller' = [controller EXCEPT ![r] = w.c]
    /\ prisma' = [prisma EXCEPT !.log[r] = w.p]

Unused == UNCHANGED decoderVars /\ UNCHANGED route

Respond(r, status) ==
    /\ session' = [session EXCEPT ![r].pc = "responded", ![r].status = status]
    /\ UNCHANGED <<controller, prisma, generator, now>>
    /\ Unused

InitServer ==
    /\ route = "server"
    /\ session = [r \in Requests |-> NewRequest]
    /\ controller = [r \in Requests |-> NoController]
    /\ generator = [r \in Requests |-> NoGenerator]
    /\ prisma = [log |-> [r \in Requests |-> NewPrisma], rows |-> InitialCommands]
    /\ now = 0
    /\ text = <<>>
    /\ expected = <<>>
    /\ pos = 0
    /\ cuts = {}
    /\ decoders = <<>>

\* the clock of the server advances once, by more than the flush interval
ServerTickMs == MaxClockSteps * ClockStepMs

\* GET / POST up to the first query: requireAuth resolves with the user's id, the
\* parameters are read and checked
Receive(r) ==
    /\ session[r].pc = "idle"
    /\ \A p \in Requests : ArrivesBefore(p, r) => session[p].pc # "idle"
    /\ \E q \in WellFormedParams :
          session' = [session EXCEPT ![r] =
              IF q.sessionId = "" \/ Falsy(q.input)
              THEN [pc |-> "responded", req |-> q, status |-> 400]
              ELSE [pc |-> "findSession", req |-> q, status |-> 0]]
    /\ UNCHANGED <<controller, prisma, generator, now>>
    /\ Unused

\* new ReadableStream({ start }): start() runs up to await getCommandHistory
CreateStream(r, commandId) ==
    /\ session' = StoreLocals(session, r,
            [NewSession EXCEPT !.startTime = now, !.lastFlush = now,
                               !.commandId = commandId]
                @@ [sessionId |-> session[r].req.sessionId, status |-> 200])
    /\ controller' = [controller EXCEPT ![r] = NewController]

\* terminalSession.findFirst returns: 404 unless the user owns the session; the
\* generate and explain handlers then create their stream (Spec follows it), the
\* execute handler calls ensureCommandRecord
VerifyOwnership(r) ==
    /\ session[r].pc = "findSession"
    /\ LET q == session[r].req IN
       IF ~findSession(q.sessionId, UserId)
       THEN Respond(r, 404)
       ELSE IF q.endpoint # "execute"
       THEN /\ session' = [session EXCEPT ![r].pc = "responded", ![r].status = 200]
            /\ controller' = [controller EXCEPT ![r] = NewController]
            /\ UNCHANGED <<prisma, generator, now>>
            /\ Unused
       ELSE /\ session' = [session EXCEPT ![r].pc =
                               IF q.commandId # "" THEN "findById" ELSE "findByInput"]
            /\ UNCHANGED <<controller, prisma, generator, now>>
            /\ Unused

\* ensureCommandRecord: command.findFirst by id returns
EnsureById(r) ==
    /\ session[r].pc = "findById"
    /\ LET q == session[r].req
           found == findById(prisma.rows, q.commandId, q.sessionId)
       IN IF found # {}
          THEN \E i \in found : CreateStream(r, prisma.rows[i].id)
          ELSE /\ session' = [session EXCEPT ![r].pc = "findByInput"]
               /\ UNCHANGED controller
    /\ UNCHANGED <<prisma, generator, now>>
    /\ Unused

\* ensureCommandRecord: command.findFirst by input returns
EnsureByInput(r) ==
    /\ session[r].pc = "findByInput"
    /\ LET q == session[r].req
           found == findByInput(prisma.rows, q.sessionId, q.input.text)
       IN IF found # {}
          THEN \E i \in found : CreateStream(r, prisma.rows[i].id)
          ELSE /\ session' = [session EXCEPT ![r].pc = "create"]
               /\ UNCHANGED controller
    /\ UNCHANGED <<prisma, generator, now>>
    /\ Unused

\* ensureCommandRecord: command.create returns the new row
EnsureCreate(r) ==
    /\ session[r].pc = "create"
    /\ LET q == session[r].req
           id == CommandIds[Len(prisma.rows) + 1]
       IN /\ prisma' = [prisma EXCEPT !.rows =
                 Append(@, [id |-> id, sessionId |-> q.sessionId, input |-> q.input.text,
                            output |-> NullOutput, writes |-> 0, createdBy |-> r])]
          /\ CreateStream(r, id)
    /\ UNCHANGED <<generator, now>>
    /\ Unused

\* a query of the handler rejects: the catch answers 500
QueryRejects(r) ==
    /\ session[r].pc \in {"findSession", "findById", "findByInput", "create"}
    /\ Respond(r, 500)

\* start() of request r goes on to w, its producer to g
Resume(r, w, g) ==
    /\ Put(r, w)
    /\ generator' = [generator EXCEPT ![r] = g]
    /\ UNCHANGED now
    /\ Unused

ReqHistoryReturns(r) ==
    /\ session[r].pc = "history"
    /\ Resume(r, [WorldOf(r) EXCEPT !.s.pc = "pull"], NewGenerator)

ReqHistoryThrows(r) ==
    /\ session[r].pc = "history"
    /\ Resume(r, Catch(WorldOf(r), TextDbDown, now), generator[r])

ReqPullThrows(r) ==
    /\ session[r].pc = "pull"
    /\ generator[r].pc = "start"
    /\ Resume(r, Catch(WorldOf(r), TextNoApiKey, now),
              [generator[r] EXCEPT !.pc = "finished"])

ReqPullProcessing(r) ==
    /\ session[r].pc = "pull"
    /\ generator[r].pc = "start"
    /\ Resume(r, LoopBody(WorldOf(r), StatusProcessing, now),
              [generator[r] EXCEPT !.pc = "running"])

ReqPullToken(r) ==
    /\ session[r].pc = "pull"
    /\ generator[r].pc = "running"
    /\ Resume(r, LoopBody(WorldOf(r), TokenEvent(normalizedOutput(<<97>>)), now),
              [generator[r] EXCEPT !.pc = "afterToken",
                                   !.usage = [inputTokens |-> 12, outputTokens |-> 3]])

ReqPullStderr(r) ==
    /\ session[r].pc = "pull"
    /\ generator[r].pc = "running"
    /\ Resume(r, LoopBody(WorldOf(r), StderrEvent(TextBoom), now),
              [generator[r] EXCEPT !.pc = "afterStderr"])

ReqPullStatus(r) ==
    /\ session[r].pc = "pull"
    /\ generator[r].pc \in {"afterToken", "afterStderr"}
    /\ Resume(r, LoopBody(WorldOf(r),
                          IF generator[r].pc = "afterToken"
                          THEN StatusComplete(generator[r].usage) ELSE StatusFailed,
                          now),
              [generator[r] EXCEPT !.pc = "finished"])

ReqPullDone(r) ==
    /\ session[r].pc = "pull"
    /\ generator[r].pc = "finished"
    /\ Resume(r, AfterLoop(WorldOf(r), now), generator[r])

\* terminalEvent.createMany of request r returns, or throws: flushEvents goes on
\* the same way
ReqCreateManySettles(r) ==
    /\ session[r].pc \in {"loopFlush", "endFlush", "catchFlush"}
    /\ Resume(r, AfterCreateMany(
                     [WorldOf(r) EXCEPT !.p.terminalEvent = SetLast(@, "settled")], now),
              generator[r])

\* command.update of request r returns, having written the row, or throws
ReqUpdateSettles(r) ==
    /\ session[r].pc \in {"endFinalize", "catchFinalize"}
    /\ \E outcome \in {"ok", "failed"} :
          LET w == AfterUpdate([WorldOf(r) EXCEPT !.p.command = SetLast(@, outcome)], now)
              call == prisma.log[r].command[Len(prisma.log[r].command)]
          IN /\ session' = StoreLocals(session, r, w.s)
             /\ controller' = [controller EXCEPT ![r] = w.c]
             /\ prisma' = [prisma EXCEPT
                    !.log[r] = w.p,
                    !.rows = IF outcome = "failed" THEN @
                             ELSE [i \in DOMAIN @ |->
                                     IF @[i].id = call.id
                                     THEN [@[i] EXCEPT !.output = call.output,
                                                       !.writes = @ + 1]
                                     ELSE @[i]]]
    /\ UNCHANGED <<generator, now>>
    /\ Unused

ReqClientDisconnects(r) ==
    /\ controller[r].state = "readable"
    /\ session[r].pc \notin {"ended", "responded"}
    /\ controller' = [controller EXCEPT ![r].state = "cancelled"]
    /\ UNCHANGED <<session, prisma, generator, now>>
    /\ Unused

ServerTick ==
    /\ route = "server"
    /\ now < ServerTickMs
    /\ \E r \in Requests : session[r].pc \notin {"idle", "ended", "responded"}
    /\ now' = now + ServerTickMs
    /\ UNCHANGED <<session, controller, prisma, generator>>
    /\ Unused

NextServer ==
    \/ ServerTick
    \/ \E r \in Requests : Receive(r)
    \/ \E r \in Requests : VerifyOwnership(r)
    \/ \E r \in Requests : EnsureById(r)
    \/ \E r \in Requests : EnsureByInput(r)
    \/ \E r \in Requests : EnsureCreate(r)
    \/ \E r \in Requests : QueryRejects(r)
    \/ \E r \in Requests : ReqHistoryReturns(r)
    \/ \E r \in Requests : ReqHistoryThrows(r)
    \/ \E r \in Requests : ReqPullThrows(r)
    \/ \E r \in Requests : ReqPullProcessing(r)
    \/ \E r \in Requests : ReqPullToken(r)
    \/ \E r \in Requests : ReqPullStderr(r)
    \/ \E r \in Requests : ReqPullStatus(r)
    \/ \E r \in Requests : ReqPullDone(r)
    \/ \E r \in Requests : ReqCreateManySettles(r)
    \/ \E r \in Requests : ReqUpdateSettles(r)
    \/ \E r \in Requests : ReqClientDisconnects(r)

SpecServer == InitServer /\ [][NextServer]_vars

(***************************************************************************)
(* The server: one request on one of the three streaming routes            *)
(***************************************************************************)
Init == InitExecute \/ InitFields

Next == NextExecute \/ NextFields \/ ClientDisconnects \/ Tick

Spec == Init /\ [][Next]_vars

(***************************************************************************)
(* Properties of the decoder                                               *)
(***************************************************************************)

\* C1: whatever the split into chunks, once the text holding the pair "F":"value"
\* has been fed, the deltas emitted for F concatenate to the value, and onComplete
\* has fired exactly once, carrying the value; before that the deltas are a prefix
\* of the value and onComplete has fired at most once.
C1_DeltasConcatenateToValue ==
    \A f \in DOMAIN decoders \cap DOMAIN expected :
        LET calls == decoders[f].calls
            deltas == DeltasOf(calls)
            done == Completions(calls)
        IN /\ Len(deltas) <= Len(expected[f])
           /\ deltas = SubSeq(expected[f], 1, Len(deltas))
           /\ Len(done) <= 1
           /\ AllFed => /\ deltas = expected[f]
                        /\ Len(done) = 1
                        /\ done[1].value = expected[f]
                        /\ calls[Len(calls)].listener = "onComplete"

\* C1 witness: a text with a decoy before the pair has been fed whole, in chunks
\* one of which ended inside an escape, and a two-character value was delivered
\* in two deltas before the completion.
C1_Witness ==
    /\ AllFed
    /\ FieldX \in DOMAIN expected
    /\ Len(expected[FieldX]) = 2
    /\ Len(decoders[FieldX].calls) = 3
    /\ decoders[FieldX].calls[3].listener = "onComplete"
    /\ cuts # {}

\* C2: the value the decoder ends with is the value the escape sequences denote,
\* wherever the chunk boundaries fell (after the backslash, after \u, between
\* two hex digits); a decoder is Complete only with the whole value, so an escaped
\* quote never ended it; and the two documented chunk sequences yield ab"cd and A.
C2_EscapesDecodeAcrossChunks ==
    \A f \in DOMAIN decoders \cap DOMAIN expected :
        LET d == decoders[f] IN
        /\ d.stage = "Complete" => d.currentValue = expected[f]
        /\ AllFed => d.stage = "Complete"
        /\ (AllFed /\ text = ExampleAbQuoteCd.text) => d.currentValue = <<97, 98, 34, 99, 100>>
        /\ (AllFed /\ text = ExampleUnicodeA.text) => d.currentValue = <<65>>

\* C2 witness: {"x":"A"} was fed with a chunk boundary between two hex
\* digits and ended with the value A.
C2_Witness ==
    /\ AllFed
    /\ text = ExampleUnicodeA.text
    /\ "insideHex" \in cuts
    /\ decoders[FieldX].currentValue = <<65>>

\* C2 second witness state: {"x":"ab\"cd"} fed with a boundary after the backslash
C2_WitnessQuote ==
    /\ AllFed
    /\ text = ExampleAbQuoteCd.text
    /\ "afterBackslash" \in cuts
    /\ decoders[FieldX].currentValue = <<97, 98, 34, 99, 100>>

\* C3: once a decoder is Complete, a processChunk call changes nothing of it
\* (stage, value, emitted length, buffers) and invokes no listener.
C3_CompleteAbsorbs ==
    [][\A f \in DOMAIN decoders :
          decoders[f].stage = "Complete" => decoders'[f] = decoders[f]]_vars

\* C3 witness: the decoder completed on the first pair and the rest of the text,
\* which holds a second pair of the same key, has been fed to it.
C3_Witness ==
    /\ AllFed
    /\ FieldX \in DOMAIN expected
    /\ decoders[FieldX].stage = "Complete"
    /\ \E s \in Suffixes(FieldX) :
          /\ Len(s) > 1
          /\ Len(text) > Len(s)
          /\ SubSeq(text, Len(text) - Len(s) + 1, Len(text)) = s
    /\ decoders[FieldX].currentValue = expected[FieldX]

\* C4 as stated: for field foo the input "ffoo" (quote f f o o quote) produces a
\* key match, the decoder leaving SearchingKey for AfterKey.
C4_FfooMatches ==
    (AllFed /\ text = ExampleFfoo.text) => decoders[FieldFoo].stage = "AfterKey"

\* C4 amended: a character that breaks a partial match is taken as the possible
\* start of a new match: for field foo the input "fo"foo" matches from index 3
\* (the quote that broke the partial match "fo), the decoder leaving SearchingKey
\* for AfterKey; the input "ffoo" holds no occurrence of the pattern "foo" and
\* leaves the decoder in SearchingKey, its closing quote counted as a fresh match
\* of the pattern's first character.
C4_MismatchStartsNewMatch ==
    /\ (text = ExampleFoFoo.text /\ pos = 4) =>
            /\ decoders[FieldFoo].stage = "SearchingKey"
            /\ decoders[FieldFoo].keyIndex = 1
    /\ (text = ExampleFoFoo.text /\ AllFed) => decoders[FieldFoo].stage = "AfterKey"
    /\ (text = ExampleFfoo.text /\ AllFed) =>
            /\ decoders[FieldFoo].stage = "SearchingKey"
            /\ decoders[FieldFoo].keyIndex = 1

\* C4 witness: "fo"foo" has been fed whole and the key was matched
C4_Witness ==
    /\ text = ExampleFoFoo.text
    /\ AllFed
    /\ decoders[FieldFoo].stage = "AfterKey"

\* C5: of two decoders fed the same chunks, each is in the state, and has made the
\* listener calls, it would have if it alone had been fed the text so far in one
\* chunk; and once the text is fed each ends with the value of its own field.
C5_DecodersDoNotInterfere ==
    (DOMAIN decoders = {FieldCommand, FieldExplanation}) =>
        \A f \in DOMAIN decoders :
            /\ decoders[f] = processChunk(NewDecoder(f), SubSeq(text, 1, pos))
            /\ \A i \in DOMAIN decoders[f].calls : decoders[f].calls[i].field = f
            /\ AllFed => /\ decoders[f].currentValue = expected[f]
                         /\ DeltasOf(decoders[f].calls) = expected[f]

\* C5 witness: both decoders completed, each with its own, different value
C5_Witness ==
    /\ DOMAIN decoders = {FieldCommand, FieldExplanation}
    /\ AllFed
    /\ decoders[FieldCommand].stage = "Complete"
    /\ decoders[FieldExplanation].stage = "Complete"
    /\ decoders[FieldCommand].currentValue # <<>>
    /\ decoders[FieldExplanation].currentValue # <<>>
    /\ decoders[FieldCommand].currentValue # decoders[FieldExplanation].currentValue


(***************************************************************************)
(* Properties of the streaming routes                                      *)
(***************************************************************************)
Ended == session.pc = "ended"

\* the events handed to terminalEvent.createMany so far, batch after batch
RECURSIVE HandedToSink(_)
HandedToSink(calls) ==
    IF calls = <<>> THEN <<>> ELSE Head(calls).data \o HandedToSink(Tail(calls))

\* every event pulled from the generator has been handed to the sink, in order
AllConsumedHanded ==
    HandedToSink(prisma.terminalEvent)
        = [i \in DOMAIN session.consumed |-> Persisted(session.consumed[i])]

Terminal(event) == event.kind \in {"done", "error"}

\* start() is suspended on a persistence write
AwaitingSink ==
    session.pc \in {"loopFlush", "endFlush", "catchFlush", "endFinalize", "catchFinalize"}

\* C6: when the execute pipeline has ended, finalize (the summary write) has run
\* exactly once.
C6_FinalizerRunsExactlyOnce ==
    (route = "execute" /\ Ended) => Len(prisma.command) = 1

\* C7: in every stream no event follows a done or error event, so there is at most
\* one terminal event and never both; a stream the server has closed ends with
\* one; in the generate and explain streams a result event comes after delta
\* events only and is directly followed by the final done.
C7_OneTerminalEvent ==
    LET q == controller.queue IN
    route \in {"execute", "generate", "explain"} =>
        /\ \A i \in 1..(Len(q) - 1) : ~Terminal(q[i])
        /\ controller.state = "closed" => (Len(q) > 0 /\ Terminal(q[Len(q)]))
        /\ route \in {"generate", "explain"} =>
              \A i \in DOMAIN q :
                  q[i].kind = "result" =>
                      /\ i = Len(q) - 1
                      /\ q[Len(q)].kind = "done"
                      /\ \A j \in 1..(i - 1) : q[j].kind = "delta"

\* C7 witness: a generate stream was closed after deltas of both fields, the
\* result and done.
C7_Witness ==
    LET q == controller.queue IN
    /\ route = "generate"
    /\ controller.state = "closed"
    /\ Len(q) >= 4
    /\ q[Len(q)].kind = "done"
    /\ q[Len(q) - 1].kind = "result"
    /\ \E i, j \in DOMAIN q :
          /\ q[i].kind = "delta" /\ q[i].data.field = FieldCommand
          /\ q[j].kind = "delta" /\ q[j].data.field = FieldExplanation

\* C7 second witness state: an execute stream closed right after its error event
C7_WitnessError ==
    /\ route = "execute"
    /\ controller.state = "closed"
    /\ Len(controller.queue) = 1
    /\ controller.queue[1].kind = "error"

\* C8: when the execute pipeline has ended, flushEvents has been called at least
\* once.
C8_FlushBeforeClose ==
    (route = "execute" /\ Ended) => session.flushCalls >= 1

\* C9: once finalize has run, every event pulled from the producer has been handed
\* to terminalEvent.createMany in some batch; when the pipeline has ended this is
\* so and the pending batch is empty.
C9_NoEventLost ==
    route = "execute" =>
        /\ Len(prisma.command) > 0 => AllConsumedHanded
        /\ Ended => (AllConsumedHanded /\ session.eventBatch = <<>>)

\* C10: the execute pipeline never waits on a persistence write while the client
\* is still owed an event: whenever start() is suspended on createMany or on
\* command.update of a readable stream, the terminal event has been emitted (a
\* write that never completes would otherwise hold back every later event and
\* the terminal event).
C10_EmissionNotGated ==
    (route = "execute" /\ AwaitingSink /\ controller.state = "readable") =>
        (Len(controller.queue) > 0 /\ Terminal(controller.queue[Len(controller.queue)]))

\* What C6, C8 and C9 state does hold of every execute stream whose client stayed
\* connected, that is, that the server itself closed.
ExecuteWhileConnected ==
    (route = "execute" /\ controller.state = "closed") =>
        /\ Len(prisma.command) = 1
        /\ session.flushCalls >= 1
        /\ AllConsumedHanded
        /\ session.eventBatch = <<>>

\* finalize never runs twice, connected or not
FinalizerAtMostOnce == Len(prisma.command) <= 1

\* C11: a failing createMany or command.update changes nothing of what the client
\* sees nor of what start() does next. Whatever the outcome of each write, the
\* events enqueued before the terminal one are exactly the events pulled from the
\* producer; an error event is only ever enqueued for a failure that happened
\* before any event was pulled and any write was issued; and a stream the server
\* closed got its later flushes and its summary write, and ends with done unless
\* such an upstream failure happened.
C11_SinkFailureInvisible ==
    route = "execute" =>
        LET q == controller.queue
            shown == SelectSeq(q, LAMBDA e : ~Terminal(e))
            failed == \E i \in DOMAIN q : q[i].kind = "error"
        IN /\ controller.state # "cancelled" => shown = session.consumed
           /\ failed => (session.consumed = <<>> /\ prisma.terminalEvent = <<>>)
           /\ controller.state = "closed" =>
                 /\ Len(prisma.command) = 1
                 /\ AllConsumedHanded
                 /\ session.eventBatch = <<>>
                 /\ ~failed => q[Len(q)].kind = "done"

\* C11 witness: a loop flush, the final flush and the summary write all failed, and
\* the stream was closed after the three upstream events and done.
C11_Witness ==
    /\ route = "execute"
    /\ controller.state = "closed"
    /\ Len(prisma.terminalEvent) >= 2
    /\ \A i \in DOMAIN prisma.terminalEvent : prisma.terminalEvent[i].state = "failed"
    /\ Len(prisma.command) = 1
    /\ prisma.command[1].state = "failed"
    /\ Len(controller.queue) = 4
    /\ controller.queue[4].kind = "done"


\* the producer failed: runExecute threw on the first pull, or its model run
\* failed and it yielded the stderr event
ProducerFailed ==
    \/ (generator.pc = "finished" /\ session.consumed = <<>>)
    \/ \E i \in DOMAIN session.consumed : session.consumed[i].kind = "stderr"

HasKind(q, kind) == \E i \in DOMAIN q : q[i].kind = kind

HasFailedStatus(q) ==
    \E i \in DOMAIN q :
        /\ q[i].kind = "status"
        /\ "exitCode" \in DOMAIN q[i].data
        /\ q[i].data.exitCode # 0

\* C12: when an execute pipeline whose producer failed has ended, the client was
\* sent an error event, a stderr event and a status event with a non-zero exit
\* code, the stream was closed, flushEvents was called and finalize has run.
C12_ProducerFailureSurfaced ==
    (route = "execute" /\ Ended /\ ProducerFailed) =>
        /\ HasKind(controller.queue, "error")
        /\ HasKind(controller.queue, "stderr")
        /\ HasFailedStatus(controller.queue)
        /\ controller.state = "closed"
        /\ session.flushCalls >= 1
        /\ Len(prisma.command) = 1

\* What does hold of a producer failure on a stream the server closed: the client
\* got either the error event alone (runExecute threw) or stderr, the status with
\* exit code 1 and done (the model run failed), never both; flushEvents was called
\* and finalize ran once.
ProducerFailureWhileConnected ==
    (route = "execute" /\ controller.state = "closed" /\ ProducerFailed) =>
        LET q == controller.queue IN
        /\ HasKind(q, "error") # HasKind(q, "stderr")
        /\ HasKind(q, "error") => Len(q) = 1
        /\ HasKind(q, "stderr") => (HasFailedStatus(q) /\ q[Len(q)].kind = "done")
        /\ session.flushCalls >= 1
        /\ Len(prisma.command) = 1


\* the text is t without the white space at its end, and starts with none
IsTrimOf(out, t) ==
    /\ Len(out) <= Len(t)
    /\ out = SubSeq(t, 1, Len(out))
    /\ \A i \in (Len(out) + 1)..Len(t) : t[i] \in WHITESPACE_REGEX
    /\ out # <<>> => (out[1] \notin WHITESPACE_REGEX /\ out[Len(out)] \notin WHITESPACE_REGEX)

\* the output of a summary write follows the precedence, given the locals s
FollowsPrecedence(output, s) ==
    IF s.outputBuffer # <<>>
    THEN ~output.isNull /\ output.text = s.outputBuffer
    ELSE IF s.encounteredError /\ s.errorBuffer # <<>>
    THEN ~output.isNull /\ IsTrimOf(output.text, TextErrorPrefix \o s.errorBuffer)
    ELSE output.isNull

\* C13: whenever finalize issues the summary write, the output it persists is
\* outputBuffer if that is non-empty; else, if encounteredError is set and
\* errorBuffer is non-empty, "Error: " followed by errorBuffer, trimmed; else null.
C13_SummaryPrecedence ==
    [][Len(prisma'.command) > Len(prisma.command) =>
          FollowsPrecedence(prisma'.command[Len(prisma'.command)].output, session')]_vars

\* C13 witness: the model run failed with a message ending in a line feed; the
\* summary holds "Error: " and the message without the line feed.
C13_Witness ==
    /\ route = "execute"
    /\ Len(prisma.command) = 1
    /\ session.outputBuffer = <<>>
    /\ session.errorBuffer = TextBoomLine
    /\ prisma.command[1].output = TextOutput(TextErrorPrefix \o TextBoom)

\* C13 second witness state: only the exit status set encounteredError (the failure
\* carried an empty message), and null was persisted
C13_WitnessNull ==
    /\ route = "execute"
    /\ Len(prisma.command) = 1
    /\ session.encounteredError
    /\ session.errorBuffer = <<>>
    /\ HasFailedStatus(session.consumed)
    /\ prisma.command[1].output = NullOutput

\* C13 third witness state: the output was persisted
C13_WitnessOutput ==
    /\ route = "execute"
    /\ Len(prisma.command) = 1
    /\ prisma.command[1].output = TextOutput(<<97, 10>>)


\* the value of field f in the data of a result event
ResultField(data, f) == IF f = FieldCommand THEN data.command ELSE data.explanation

ResultPrefersDecoderText ==
    route \in {"generate", "explain"} =>
        \A i \in DOMAIN controller.queue :
            controller.queue[i].kind = "result" =>
                \A f \in DOMAIN session.latest :
                    ResultField(controller.queue[i].data, f) =
                        IF DeltasOf(decoders[f].calls) = <<>> THEN expected[f]
                        ELSE DeltasOf(decoders[f].calls)


(***************************************************************************)
(* Properties of the route handlers and of interleaved requests            *)
(***************************************************************************)

\* C15: no row of the command table receives a second summary write, whatever
\* requests are served on the session and however they interleave.
C15_SummaryWrittenOnce ==
    route = "server" => \A i \in DOMAIN prisma.rows : prisma.rows[i].writes <= 1

\* What does hold: a request issues at most one summary write, to the row that
\* ensureCommandRecord resolved for it.
OneSummaryWritePerRequest ==
    route = "server" =>
        \A r \in Requests :
            /\ Len(prisma.log[r].command) <= 1
            /\ \A i \in DOMAIN prisma.log[r].command :
                  prisma.log[r].command[i].id = session[r].commandId


\* the user making the requests owns the session
OwnedByUser(sessionId) ==
    sessionId \in DOMAIN TerminalSessions /\ TerminalSessions[sessionId] = UserId

\* request r lacks its session identifier or its input (goal, command), or names a
\* session the user does not own
MustBeRejected(r) ==
    IF "req" \in DOMAIN session[r]
    THEN \/ session[r].req.sessionId = ""
         \/ Falsy(session[r].req.input)
         \/ ~OwnedByUser(session[r].req.sessionId)
    ELSE ~OwnedByUser(session[r].sessionId)

\* C16: a request without a session identifier or without input, or naming a
\* session the user does not own, never gets a stream: no event is enqueued for
\* it, the producer is never called for it, it creates no command row and issues
\* no write, and it is answered 400 (a parameter is missing) or 404 (or 500 when
\* the ownership query itself fails).
C16_RejectedBeforePipeline ==
    route = "server" =>
        \A r \in Requests :
            (session[r].pc # "idle" /\ MustBeRejected(r)) =>
                /\ controller[r] = NoController
                /\ generator[r] = NoGenerator
                /\ prisma.log[r] = NewPrisma
                /\ \A i \in DOMAIN prisma.rows : prisma.rows[i].createdBy # r
                /\ session[r].pc \in {"findSession", "responded"}
                /\ session[r].pc = "responded" =>
                      /\ session[r].status \in {400, 404, 500}
                      /\ session[r].status = 400 <=>
                            (session[r].req.sessionId = "" \/ Falsy(session[r].req.input))

\* C16 witness: an execute request naming another user's session was answered
\* 404 and a generate request with an empty goal 400; the command table is as
\* it was.
C16_Witness ==
    /\ route = "server"
    /\ session["r1"].pc = "responded"
    /\ session["r1"].status = 404
    /\ session["r1"].req.endpoint = "execute"
    /\ session["r1"].req.sessionId = "s2"
    /\ session["r2"].pc = "responded"
    /\ session["r2"].status = 400
    /\ session["r2"].req.endpoint = "generate"
    /\ session["r2"].req.input = TextOutput(<<>>)
    /\ prisma.rows = InitialCommands


\* the locals a pipeline has after accumulating the events, one after the other
RECURSIVE AccumulateAll(_, _)
AccumulateAll(s, events) ==
    IF events = <<>> THEN s ELSE AccumulateAll(Accumulate(s, Head(events)), Tail(events))

\* request r has a pipeline (start() has been entered)
HasPipeline(r) == "outputBuffer" \in DOMAIN session[r]

\* the messages start() may catch
CaughtMessages == {TextDbDown, TextNoApiKey, TextInvalidState}

\* C17: however two execute pipelines interleave at their awaits, each one's state
\* is the state it reaches alone on its own events: what it enqueued for its
\* client and what it pushed to its batch or handed to createMany are its own
\* events, in order; its output buffer, token counters and error state are those
\* obtained by accumulating its own events (plus the message its own catch block
\* appended); and its summary write carries its own command id, counters and the
\* output computed from its own buffers.
C17_PipelinesIndependent ==
    route = "server" =>
        \A r \in Requests : HasPipeline(r) =>
            LET s == session[r]
                pushed == HandedToSink(prisma.log[r].terminalEvent) \o s.eventBatch
                own == SubSeq(s.consumed, 1, Len(pushed))
                solo == AccumulateAll(NewSession, own)
                shown == SelectSeq(controller[r].queue, LAMBDA e : ~Terminal(e))
            IN /\ Len(pushed) <= Len(s.consumed)
               /\ Len(s.consumed) - Len(pushed) <= 1
               /\ controller[r].state # "cancelled" => Len(pushed) = Len(s.consumed)
               /\ pushed = [i \in DOMAIN own |-> Persisted(own[i])]
               /\ shown = own
               /\ s.outputBuffer = solo.outputBuffer
               /\ s.tokensIn = solo.tokensIn
               /\ s.tokensOut = solo.tokensOut
               /\ \/ (s.errorBuffer = solo.errorBuffer
                        /\ s.encounteredError = solo.encounteredError)
                  \/ (s.encounteredError
                        /\ \E m \in CaughtMessages :
                               s.errorBuffer = appendErrorText(solo.errorBuffer, m))
               /\ \A i \in DOMAIN prisma.log[r].command :
                     LET call == prisma.log[r].command[i] IN
                     /\ call.id = s.commandId
                     /\ call.tokensIn = s.tokensIn
                     /\ call.tokensOut = s.tokensOut
                     /\ s.pc \in {"endFinalize", "catchFinalize"} =>
                            FollowsPrecedence(call.output, s)

\* C17 witness: both pipelines are in their loops at once, the first having
\* consumed the output token of its run, the second the stderr event of its own.
C17_Witness ==
    /\ route = "server"
    /\ \A r \in Requests : HasPipeline(r) /\ session[r].pc = "pull"
    /\ Len(session["r1"].consumed) = 2
    /\ session["r1"].consumed[2].kind = "token"
    /\ Len(session["r2"].consumed) = 2
    /\ session["r2"].consumed[2].kind = "stderr"
    /\ session["r1"].outputBuffer # <<>>
    /\ session["r2"].outputBuffer = <<>>


(***************************************************************************)
(* Properties of the decoder on any value text, well-formed or not         *)
(***************************************************************************)
\* the decoder is collecting and the next quote would be unescaped
AtUnescapedPosition(d) ==
    d.stage = "Collecting" /\ ~d.escapeActive /\ d.unicodeDigitsRemaining = 0

\* C18 as stated: every decoder that is Complete has notified completion
\* exactly once, whatever raw text it had buffered.
C18_CompleteAlwaysNotifies ==
    \A f \in DOMAIN decoders :
        decoders[f].stage = "Complete" => Len(Completions(decoders[f].calls)) = 1

\* C18 amended: an unescaped closing quote always makes the decoder Complete and
\* clears its buffer; it notifies completion, once and with the full decoded
\* value, exactly when the buffered raw text decodes as a JSON string, and
\* notifies nothing when it does not. No delta is emitted at the closing quote.
\* A completion notification is the last call a decoder makes.
C18_CompleteNotifiesIfDecodable ==
    \A f \in DOMAIN decoders :
        LET d == decoders[f]
            done == Completions(d.calls)
        IN /\ Len(done) <= 1
           /\ Len(done) = 1 =>
                /\ d.stage = "Complete"
                /\ d.calls[Len(d.calls)].listener = "onComplete"
                /\ done[1].value = d.currentValue
           /\ d.stage = "Complete" => d.collectingBuffer = <<>>
           /\ AtUnescapedPosition(d) =>
                LET parsed == JsonParseString(d.collectingBuffer)
                    e == processValueChar(d, QUOTE)
                IN /\ e.stage = "Complete"
                   /\ e.collectingBuffer = <<>>
                   /\ e.calls = IF parsed.ok
                                THEN Append(d.calls, OnComplete(d, parsed.value))
                                ELSE d.calls

\* C18 witness: a decoder became Complete on the closing quote of a value text
\* that does not decode: it delivered one delta and no completion notification.
C18_Witness ==
    \E f \in DOMAIN decoders :
        /\ decoders[f].stage = "Complete"
        /\ Completions(decoders[f].calls) = <<>>
        /\ Len(decoders[f].calls) = 1
        /\ AllFed

\* the texts JSON.parse yields for the prefixes of raw that it accepts: the
\* prefixes that end on an escape-sequence boundary
DecodedPrefixes(raw) ==
    { JsonParseString(SubSeq(raw, 1, k)).value :
        k \in {n \in 0..Len(raw) : JsonParseString(SubSeq(raw, 1, n)).ok} }

\* the raw text between an opening quote at position i of the consumed text and
\* position j
RawRuns ==
    { SubSeq(text, i + 1, j) : i \in {n \in 1..pos : text[n] = QUOTE}, j \in 0..pos }

\* C19: every onDelta carries decoded text only. Its fullValue is the JSON
\* decoding of a prefix of the raw value text that ends on an escape-sequence
\* boundary (while the decoder is Collecting, a prefix of the raw text it has
\* buffered, which is the consumed text since the opening quote); its delta is
\* not empty and fullValue is the concatenation of the deltas delivered so far.
C19_OnlyDecodedText ==
    \A f \in DOMAIN decoders :
        LET d == decoders[f]
            raw == d.collectingBuffer
        IN /\ d.stage = "Collecting" =>
                /\ Len(raw) < pos
                /\ text[pos - Len(raw)] = QUOTE
                /\ raw = SubSeq(text, pos - Len(raw) + 1, pos)
           /\ \A n \in DOMAIN d.calls :
                d.calls[n].listener = "onDelta" =>
                    /\ d.calls[n].delta # <<>>
                    /\ d.calls[n].value = DeltasOf(SubSeq(d.calls, 1, n))
                    /\ d.stage = "Collecting" => d.calls[n].value \in DecodedPrefixes(raw)
                    /\ \E run \in RawRuns : d.calls[n].value \in DecodedPrefixes(run)

\* C19 witness: the chunk boundary fell inside a \uXXXX escape that follows \n:
\* the listener has been given the line feed and nothing of the pending escape.
C19_Witness ==
    \E f \in DOMAIN decoders :
        LET d == decoders[f] IN
        /\ d.stage = "Collecting"
        /\ d.unicodeDigitsRemaining \in 1..3
        /\ Len(d.calls) = 1
        /\ d.calls[1].value = <<NEWLINE>>
        /\ SubSeq(d.collectingBuffer, 1, 4) = <<BACKSLASH, 110, BACKSLASH, LOWER_U>>

\* fullValue of the last onDelta call, the empty text when there was none
LastValue(calls) ==
    LET deltas == SelectSeq(calls, LAMBDA c : c.listener = "onDelta")
    IN IF deltas = <<>> THEN <<>> ELSE deltas[Len(deltas)].value

\* length of the prefix of the buffered raw text whose decoding the listener
\* was last given
Reflected(d) ==
    LET ks == { k \in 0..Len(d.collectingBuffer) :
                  LET parsed == JsonParseString(SubSeq(d.collectingBuffer, 1, k))
                  IN parsed.ok /\ parsed.value = LastValue(d.calls) }
    IN CHOOSE k \in ks : \A m \in ks : m <= k

\* raw value characters consumed but not yet reflected in an emitted delta
Lag(d) == Len(d.collectingBuffer) - Reflected(d)

\* length of a \uXXXX escape in the raw text
UnicodeEscapeLen == 6

\* raw characters of the escape sequence the decoder is inside of
PendingEscape(d) ==
    IF d.unicodeDigitsRemaining > 0 THEN UnicodeEscapeLen - d.unicodeDigitsRemaining
    ELSE IF d.escapeActive THEN 1
    ELSE 0

\* C20 as stated: while Collecting, at most one consumed raw value character is
\* not yet reflected in an emitted delta.
C20_LagAtMostOne ==
    \A f \in DOMAIN decoders :
        decoders[f].stage = "Collecting" => Lag(decoders[f]) <= 1

\* C20 amended: while the decoder collects a well-formed JSON string value, the
\* consumed raw characters not yet reflected in an emitted delta are exactly
\* those of the escape sequence it is inside of: none outside an escape, one
\* after a backslash, and two to five inside a \uXXXX escape. For any value
\* text the lag is at least that, and it is exactly that whenever the text
\* before the pending escape decodes.
C20_LagIsPendingEscape ==
    \A f \in DOMAIN decoders :
        LET d == decoders[f]
            settled == SubSeq(d.collectingBuffer, 1,
                              Len(d.collectingBuffer) - PendingEscape(d))
        IN d.stage = "Collecting" =>
            /\ PendingEscape(d) \in 0..(UnicodeEscapeLen - 1)
            /\ PendingEscape(d) <= Len(d.collectingBuffer)
            /\ Lag(d) >= PendingEscape(d)
            /\ JsonParseString(settled).ok => Lag(d) = PendingEscape(d)
            /\ f \in DOMAIN expected => JsonParseString(settled).ok

\* C20 witness: inside a well-formed \uXXXX escape with one hex digit to come,
\* after an earlier delta: five raw characters are not reflected yet.
C20_Witness ==
    \E f \in DOMAIN decoders \cap DOMAIN expected :
        /\ decoders[f].stage = "Collecting"
        /\ decoders[f].unicodeDigitsRemaining = 1
        /\ decoders[f].calls # <<>>
        /\ Lag(decoders[f]) = UnicodeEscapeLen - 1

\* C21: in every decoder state lastEmittedLength is at most the length of
\* currentValue, and no processChunk call makes lastEmittedLength smaller (the
\* reset on the opening quote happens while it is still 0).
C21_EmittedLengthMonotone ==
    /\ [](\A f \in DOMAIN decoders :
            decoders[f].lastEmittedLength <= Len(decoders[f].currentValue))
    /\ [][\A f \in DOMAIN decoders :
            decoders'[f].lastEmittedLength >= decoders[f].lastEmittedLength]_vars

\* C21 witness: a decoder went through the opening quote, two deltas and the
\* closing quote; its emitted length is the length of its value, 2.
C21_Witness ==
    \E f \in DOMAIN decoders :
        /\ decoders[f].stage = "Complete"
        /\ decoders[f].lastEmittedLength = 2
        /\ Len(decoders[f].currentValue) = 2
        /\ Len(decoders[f].calls) = 3

(***************************************************************************)
(* The key search against a reference substring search                     *)
(***************************************************************************)
\* positions of t at which an occurrence of the pattern p ends
OccurrenceEnds(t, p) ==
    { e \in Len(p)..Len(t) : SubSeq(t, e - Len(p) + 1, e) = p }

\* length of the longest suffix of t that is a proper prefix of p
Border(t, p) ==
    LET ks == { k \in 0..(Len(p) - 1) :
                  k <= Len(t) /\ SubSeq(t, Len(t) - k + 1, Len(t)) = SubSeq(p, 1, k) }
    IN CHOOSE k \in ks : \A m \in ks : m <= k

\* C22: for a field name without a double quote, a decoder fed a text from the
\* moment it enters SearchingKey stays there, its match index being the longest
\* partial match the text ends with, as long as the text holds no occurrence of
\* the pattern "<field>", and is in AfterKey with index 0 exactly when the text
\* ends with the earliest occurrence. A rejection in AfterKey or
\* WaitingForStringStart puts the decoder in the state of a new decoder fed the
\* rejecting character, so the same holds from every re-entry.
C22_KeySearchIsSubstringSearch ==
    \A f \in DOMAIN decoders :
        LET d == decoders[f]
            p == keyPattern(f)
            seen == OccurrenceEnds(SubSeq(text, 1, pos), p)
        IN /\ seen = {} =>
                /\ d.stage = "SearchingKey"
                /\ d.keyIndex = Border(SubSeq(text, 1, pos), p)
           /\ (seen = {pos}) => (d.stage = "AfterKey" /\ d.keyIndex = 0)
           /\ d.stage \in {"AfterKey", "WaitingForStringStart"} =>
                /\ [d EXCEPT !.stage = "SearchingKey"] = NewDecoder(f)
                /\ \A c \in KeyAlphabet :
                     resetSearchAndReprocess(d, c) = processChunk(NewDecoder(f), <<c>>)

\* C22 witness: for field fo the text "f"fo" was consumed: the quote that broke
\* the partial match "f started the match that was found.
C22_Witness ==
    /\ DOMAIN decoders = {<<102, 111>>}
    /\ SubSeq(text, 1, pos) = <<QUOTE, 102, QUOTE, 102, 111, QUOTE>>
    /\ decoders[<<102, 111>>].stage = "AfterKey"

(***************************************************************************)
(* False positives of the key search                                       *)
(***************************************************************************)
\* characters that are neither whitespace nor a colon: quote, 1, comma, brace, x, f
NonBlankChars == {QUOTE, 49, 44, 123, 120, 102}

\* C23: in AfterKey whitespace is skipped and a colon leads to
\* WaitingForStringStart, where whitespace is skipped and a quote opens the value;
\* any other character is a false positive: no listener is called and the decoder
\* is where a search restarted at index 0 gets by processing that character (index 1
\* when it is a quote, 0 otherwise). So "x""x":"v" and "x":1,"x":"v" yield v.
C23_FalsePositiveRestartsSearch ==
    \A f \in DOMAIN decoders :
        LET d == decoders[f]
            restarted(c) == [d EXCEPT !.stage = "SearchingKey",
                                      !.keyIndex = IF c = QUOTE THEN 1 ELSE 0]
        IN /\ d.stage = "AfterKey" =>
                /\ d.keyIndex = 0
                /\ \A c \in WHITESPACE_REGEX : processChunk(d, <<c>>) = d
                /\ processChunk(d, <<COLON>>) = [d EXCEPT !.stage = "WaitingForStringStart"]
                /\ \A c \in NonBlankChars : processChunk(d, <<c>>) = restarted(c)
           /\ d.stage = "WaitingForStringStart" =>
                /\ d.keyIndex = 0
                /\ \A c \in WHITESPACE_REGEX : processChunk(d, <<c>>) = d
                /\ processChunk(d, <<QUOTE>>).stage = "Collecting"
                /\ \A c \in (NonBlankChars \cup {COLON}) \ {QUOTE} :
                     processChunk(d, <<c>>) = restarted(c)
           /\ d.stage \in {"SearchingKey", "AfterKey", "WaitingForStringStart"} =>
                d.calls = <<>>
           /\ (AllFed /\ text \in {ExampleKeyTwice.text, ExampleNumberThenString.text}) =>
                /\ d.stage = "Complete"
                /\ d.calls = <<OnDelta(d, <<118>>, <<118>>), OnComplete(d, <<118>>)>>

\* C23 witness: "x""x":"v" was fed whole: the quote that rejected the first key
\* match started the second, whose value was delivered.
C23_Witness ==
    /\ text = ExampleKeyTwice.text
    /\ AllFed
    /\ decoders[FieldX].currentValue = <<118>>

\* C23 second witness state: "x":1,"x":"v" was fed whole and yielded v
C23_WitnessNumber ==
    /\ text = ExampleNumberThenString.text
    /\ AllFed
    /\ decoders[FieldX].currentValue = <<118>>

\* C24: however the consumed text was cut into chunks, each decoder is in the
\* state, and has made the calls, of one processChunk call on the whole consumed
\* text; and processChunk of the empty text changes nothing.
C24_ChunkingIrrelevant ==
    \A f \in DOMAIN decoders :
        LET d == decoders[f]
        IN /\ d = processChunk(NewDecoder(f), SubSeq(text, 1, pos))
           /\ processChunk(d, <<>>) = d

\* C24 witness: a text was fed whole with chunk boundaries after a backslash and
\* between the hex digits of a \uXXXX escape, and its value was completed.
C24_Witness ==
    /\ AllFed
    /\ {"afterBackslash", "insideHex"} \subseteq cuts
    /\ \E f \in DOMAIN decoders :
          /\ decoders[f].stage = "Complete"
          /\ Len(decoders[f].calls) = 3

\* the decoder has not reached the opening quote of a value yet
BeforeValue(d) == d.stage \in {"SearchingKey", "AfterKey", "WaitingForStringStart"}

\* C25: a decoder extracts at most one value. Collecting is entered only from a
\* state in which no listener was called yet, the only stages after Collecting
\* are Collecting and Complete, and Complete is never left, so Collecting is
\* entered at most once; onComplete is called at most once and is the last call;
\* and a Complete decoder holds the value of the first pair whatever follows.
C25_AtMostOneValue ==
    /\ [](\A f \in DOMAIN decoders :
            LET d == decoders[f] IN
            /\ Len(Completions(d.calls)) <= 1
            /\ \A n \in DOMAIN d.calls :
                  d.calls[n].listener = "onComplete" => n = Len(d.calls)
            /\ BeforeValue(d) => d.calls = <<>>
            /\ (d.stage = "Complete" /\ f \in DOMAIN expected) =>
                  d.currentValue = expected[f])
    /\ [][\A f \in DOMAIN decoders :
            /\ decoders[f].stage = "Collecting" =>
                  decoders'[f].stage \in {"Collecting", "Complete"}
            /\ decoders[f].stage = "Complete" => decoders'[f] = decoders[f]]_vars

\* C25 witness: the text holds two pairs of the key x; it was fed whole and the
\* decoder made the calls of the first pair only.
C25_Witness ==
    /\ AllFed
    /\ FieldX \in DOMAIN expected
    /\ Cardinality(OccurrenceEnds(text, keyPattern(FieldX) \o <<COLON, QUOTE>>)) = 2
    /\ decoders[FieldX].stage = "Complete"
    /\ Len(Completions(decoders[FieldX].calls)) = 1
    /\ DeltasOf(decoders[FieldX].calls) = expected[FieldX]
    /\ expected[FieldX] # <<98>>

\* the value getter of the decoder
value(d) == d.currentValue

\* C26: every onDelta call has a non-empty delta and a fullValue that is the
\* concatenation of the deltas delivered up to and including it; the value
\* getter returns the concatenation of all deltas delivered (so, right after a
\* call, its fullValue); and onComplete is given that concatenation too.
C26_FullValueIsDeltasConcatenated ==
    \A f \in DOMAIN decoders :
        LET d == decoders[f] IN
        /\ value(d) = DeltasOf(d.calls)
        /\ value(d) = LastValue(d.calls)
        /\ \A n \in DOMAIN d.calls :
              /\ d.calls[n].value = DeltasOf(SubSeq(d.calls, 1, n))
              /\ d.calls[n].field = f
              /\ d.calls[n].listener = "onDelta" => Len(d.calls[n].delta) > 0
              /\ d.calls[n].listener = "onComplete" => d.calls[n].value = DeltasOf(d.calls)

\* C26 witness: a value whose second delta is an escaped quote was completed,
\* one delta per decoded character, the completion carrying all of them.
C26_Witness ==
    \E f \in DOMAIN decoders :
        LET d == decoders[f] IN
        /\ Len(d.calls) >= 3
        /\ d.calls[Len(d.calls)].listener = "onComplete"
        /\ d.calls[Len(d.calls)].value = value(d)
        /\ Len(value(d)) = Len(d.calls) - 1
        /\ d.calls[2].delta = <<QUOTE>>

\* C27: every processChunk call returns, leaving the decoder in one of its five
\* stages. While the buffered text ends inside an escape it does not decode and
\* nothing of the escape has been delivered; the character that completes a
\* single-character escape delivers it. A decoder that has not consumed a closing
\* quote is in a non-terminal stage, has delivered the decoding of the complete
\* part of the buffered text and has made no completion notification, and stays
\* so when the stream ends there.
C27_NeverThrows ==
    \A f \in DOMAIN decoders :
        LET d == decoders[f]
            raw == d.collectingBuffer
            settled == JsonParseString(SubSeq(raw, 1, Len(raw) - PendingEscape(d)))
        IN /\ d.stage \in FieldStage
           /\ \A c \in NonBlankChars \cup {COLON, BACKSLASH, LOWER_U, NEWLINE} :
                processChunk(d, <<c>>).stage \in FieldStage
           /\ d.stage # "Complete" => Completions(d.calls) = <<>>
           /\ d.stage = "Collecting" =>
                /\ settled.ok => DeltasOf(d.calls) = settled.value
                /\ PendingEscape(d) > 0 =>
                     /\ ~JsonParseString(raw).ok
                     /\ processChunk(d, <<>>) = d
                /\ (settled.ok /\ d.escapeActive /\ d.unicodeDigitsRemaining = 0) =>
                     \A c \in DOMAIN SimpleEscape :
                        processChunk(d, <<c>>).calls =
                            Append(d.calls, OnDelta(d, <<SimpleEscape[c]>>,
                                                    Append(settled.value, SimpleEscape[c])))
           /\ (AllFed /\ text = ExampleTruncated.text) =>
                /\ d.stage = "Collecting"
                /\ DeltasOf(d.calls) = <<97, NEWLINE>>

\* C27 witness: the stream ended inside a \uXXXX escape of the value: the decoder
\* is Collecting with the two deltas delivered before the escape.
C27_Witness ==
    /\ AllFed
    /\ text = ExampleTruncated.text
    /\ decoders[FieldX].unicodeDigitsRemaining = 2
    /\ Len(decoders[FieldX].calls) = 2

\* C27 second witness state: a value text that never decodes again was consumed
\* up to its closing quote without a throw
C27_WitnessMalformed ==
    \E f \in DOMAIN decoders :
        /\ decoders[f].stage = "Collecting"
        /\ PendingEscape(decoders[f]) = 0
        /\ ~JsonParseString(decoders[f].collectingBuffer).ok

(***************************************************************************)
(* Accumulation and flushing in the execute pipeline                       *)
(***************************************************************************)
\* events of every kind the loop distinguishes, with and without the optional
\* fields of a status event
SampleEvents ==
    { StatusProcessing,
      TokenEvent(<<97, NEWLINE>>),
      StderrEvent(TextBoom),
      StderrEvent(<<>>),
      StatusComplete(<<>>),
      StatusComplete([inputTokens |-> 7, outputTokens |-> 5]),
      [kind |-> "status", data |-> [message |-> TextComplete, tokensOut |-> 9]],
      StatusFailed }

IsPrefix(a, b) == Len(a) <= Len(b) /\ SubSeq(b, 1, Len(a)) = a

\* the event sets the error flag: stderr, or a status with a non-zero exit code
RaisesError(e) ==
    \/ e.kind = "stderr"
    \/ (e.kind = "status" /\ "exitCode" \in DOMAIN e.data /\ e.data.exitCode # 0)

\* this step enters the catch block because the history query or the producer
\* threw
UpstreamRaises ==
    \/ (session.pc = "history" /\ session'.pc \notin {"history", "pull"})
    \/ (session.pc = "pull" /\ generator.pc = "start" /\ generator'.pc = "finished")

\* C28: in the execute pipeline, accumulating an event of any kind onto any
\* reachable state leaves encounteredError true if it was, sets it exactly when
\* the event is a stderr event or a status event with a non-zero exit code, and
\* changes errorBuffer only for a stderr event, to the buffer followed by a line
\* feed and the text (the text alone when the buffer was empty); and no step of
\* the pipeline resets encounteredError or shortens errorBuffer, an upstream
\* raise setting the flag and appending its message.
C28_ErrorFlagSticky ==
    /\ [](route = "execute" =>
            \A e \in SampleEvents :
                LET s == Accumulate(session, e) IN
                /\ s.encounteredError = (session.encounteredError \/ RaisesError(e))
                /\ IsPrefix(session.errorBuffer, s.errorBuffer)
                /\ e.kind # "stderr" => s.errorBuffer = session.errorBuffer
                /\ e.kind = "stderr" =>
                      s.errorBuffer =
                          IF e.data.message = <<>> THEN session.errorBuffer
                          ELSE IF session.errorBuffer = <<>> THEN e.data.message
                          ELSE session.errorBuffer \o <<NEWLINE>> \o e.data.message)
    /\ [][route = "execute" =>
            /\ session.encounteredError => session'.encounteredError
            /\ IsPrefix(session.errorBuffer, session'.errorBuffer)
            /\ (Len(session'.consumed) > Len(session.consumed)
                    /\ controller.state = "readable") =>
                  LET e == session'.consumed[Len(session'.consumed)] IN
                  /\ session'.encounteredError = Accumulate(session, e).encounteredError
                  /\ session'.errorBuffer = Accumulate(session, e).errorBuffer
                  /\ RaisesError(e) => session'.encounteredError
            /\ UpstreamRaises =>
                  /\ session'.encounteredError
                  /\ Len(session'.errorBuffer) > Len(session.errorBuffer)]_vars

\* C28 witness: the stderr event set the flag and the status event after it was
\* accumulated; the client then went away and the catch block appended its own
\* message on a new line.
C28_Witness ==
    /\ route = "execute"
    /\ Len(session.consumed) = 3
    /\ session.consumed[2] = StderrEvent(TextBoom)
    /\ session.encounteredError
    /\ session.errorBuffer = TextBoom \o <<NEWLINE>> \o TextInvalidState

\* the value of the counter in the latest status event of events that carries
\* it, base when there is none
RECURSIVE LatestCounter(_, _, _)
LatestCounter(events, counter, base) ==
    IF events = <<>> THEN base
    ELSE LET e == events[Len(events)] IN
         IF e.kind = "status" /\ counter \in DOMAIN e.data THEN e.data[counter]
         ELSE LatestCounter(SubSeq(events, 1, Len(events) - 1), counter, base)

\* the events of the execute pipeline that went through the accumulation (the
\* last one pulled did not when its enqueue threw)
Accumulated ==
    SubSeq(session.consumed, 1,
           Len(HandedToSink(prisma.terminalEvent)) + Len(session.eventBatch))

\* C29: in the execute pipeline tokensIn and tokensOut are the values carried by
\* the latest accumulated status event that has the counter, 0 when there is
\* none; and accumulating any two further events gives, for each counter, the
\* value of the later status event carrying it, else of the earlier one, else
\* the present value: never a sum, and untouched by token and stderr events and
\* by status events without the counter.
C29_CountersLastWriteWins ==
    route = "execute" =>
        /\ session.tokensIn = LatestCounter(Accumulated, "tokensIn", 0)
        /\ session.tokensOut = LatestCounter(Accumulated, "tokensOut", 0)
        /\ \A e1 \in SampleEvents, e2 \in SampleEvents :
              LET s == Accumulate(Accumulate(session, e1), e2) IN
              /\ s.tokensIn = LatestCounter(<<e1, e2>>, "tokensIn", session.tokensIn)
              /\ s.tokensOut = LatestCounter(<<e1, e2>>, "tokensOut", session.tokensOut)
              /\ e2.kind # "status" =>
                    /\ s.tokensIn = Accumulate(session, e1).tokensIn
                    /\ s.tokensOut = Accumulate(session, e1).tokensOut

\* C29 witness: the closing status event carried the usage 12 / 3 after the
\* first status event carried none, and the pipeline ended.
C29_Witness ==
    /\ route = "execute"
    /\ session.pc = "ended"
    /\ Len(session.consumed) = 3
    /\ session.tokensIn = 12
    /\ session.tokensOut = 3

\* this step of the execute pipeline pulls an item and processes it (its enqueue
\* does not throw)
ProcessesItem ==
    /\ Len(session'.consumed) > Len(session.consumed)
    /\ controller.state = "readable"

\* this step hands a batch to createMany
IssuesFlush == Len(prisma'.terminalEvent) > Len(prisma.terminalEvent)

\* C30: in the execute pipeline a step that processes an item flushes if and
\* only if more than 200 ms have passed since lastFlush: then the whole batch,
\* the item included, is handed to createMany and, when the write has settled,
\* lastFlush becomes the time of that check; otherwise the item is appended to
\* the batch and lastFlush stays. lastFlush changes nowhere else, and no batch is
\* handed over while the pipeline waits for the next item, however much time
\* passes: only processing an item, the end of the loop or the catch block do so.
C30_FlushCheckedAfterEachItem ==
    [][route = "execute" =>
        LET item == session'.consumed[Len(session'.consumed)]
            elapsed == now - session.lastFlush
        IN /\ ProcessesItem =>
                /\ (session'.pc = "loopFlush") = (elapsed > FlushIntervalMs)
                /\ IssuesFlush = (elapsed > FlushIntervalMs)
                /\ elapsed > FlushIntervalMs =>
                     /\ session'.eventBatch = <<>>
                     /\ prisma'.terminalEvent[Len(prisma'.terminalEvent)].data =
                            Append(session.eventBatch, Persisted(item))
                     /\ session'.loopNow = now
                /\ elapsed <= FlushIntervalMs =>
                     /\ session'.eventBatch = Append(session.eventBatch, Persisted(item))
                     /\ session'.pc = "pull"
                /\ session'.lastFlush = session.lastFlush
           /\ session'.lastFlush # session.lastFlush =>
                /\ session.pc = "loopFlush"
                /\ session'.pc = "pull"
                /\ session'.lastFlush = session.loopNow
                /\ session'.lastFlush - session.lastFlush > FlushIntervalMs
           /\ (session.pc = "loopFlush" /\ session'.pc # "loopFlush") =>
                session'.lastFlush = session.loopNow
           /\ IssuesFlush => session'.pc \in {"loopFlush", "endFlush", "catchFlush"}
           /\ (IssuesFlush /\ session'.pc = "loopFlush") => ProcessesItem
           /\ now' # now => prisma' = prisma /\ session' = session]_vars

\* C30 witness: two items were kept in the batch, the third came more than
\* 200 ms after the start and the three were flushed together; lastFlush was
\* advanced and the pipeline waits for the next item.
C30_Witness ==
    /\ route = "execute"
    /\ session.pc = "pull"
    /\ session.lastFlush > FlushIntervalMs
    /\ session.eventBatch = <<>>
    /\ Len(prisma.terminalEvent) = 1
    /\ Len(prisma.terminalEvent[1].data) = 3

\* C30 second witness state: an item processed exactly 200 ms after the last
\* flush stays in the batch
C30_WitnessAtInterval ==
    /\ route = "execute"
    /\ session.pc = "pull"
    /\ now - session.lastFlush = FlushIntervalMs
    /\ Len(session.eventBatch) = Len(session.consumed)
    /\ Len(session.consumed) = 1

(***************************************************************************)
(* Order of emission and persistence in the execute pipeline               *)
(***************************************************************************)
\* the events the client was sent, the terminal done / error event left out
Shown == SelectSeq(controller.queue, LAMBDA e : ~Terminal(e))

\* the events pushed to eventBatch so far: those handed to createMany and those
\* still in the batch
Pushed == HandedToSink(prisma.terminalEvent) \o session.eventBatch

\* every event pushed for persistence was sent to the client before, verbatim and
\* in the same order, and the client was sent upstream events only, in order
EmittedBeforePersisted ==
    route = "execute" =>
        /\ Len(Pushed) <= Len(Shown)
        /\ Pushed = [i \in DOMAIN Pushed |-> Persisted(Shown[i])]
        /\ IsPrefix(Shown, session.consumed)
        /\ controller.state # "cancelled" => Len(Pushed) = Len(Shown)

\* C31: every event pushed for persistence was emitted to the client before; and
\* when the execute pipeline has ended, the events the client was sent before the
\* terminal event are the events consumed from upstream, in order, and the
\* batches handed to the sink, concatenated, are those events too.
C31_EmittedThenPersistedInOrder ==
    /\ EmittedBeforePersisted
    /\ (route = "execute" /\ Ended) =>
          /\ Shown = session.consumed
          /\ HandedToSink(prisma.terminalEvent) =
                [i \in DOMAIN session.consumed |-> Persisted(session.consumed[i])]

\* a createMany or a command.update has been issued and has not returned yet
WritePending ==
    \/ \E i \in DOMAIN prisma.terminalEvent : prisma.terminalEvent[i].state = "pending"
    \/ \E i \in DOMAIN prisma.command : prisma.command[i].state = "pending"

\* C32: in the execute pipeline the done event is in the stream only when the
\* batch is empty, no write is pending and the summary write has returned; while
\* the pipeline is in the final flush or the summary write of its failure path
\* the error event is already the last event of the stream; and a stream the
\* server closed has no write pending and its summary write has returned.
C32_TerminalEventOrder ==
    route = "execute" =>
        LET q == controller.queue IN
        /\ HasKind(q, "done") =>
              /\ ~WritePending
              /\ Len(prisma.command) = 1
              /\ session.eventBatch = <<>>
              /\ session.flushCalls >= 1
              /\ ~HasKind(q, "error")
        /\ session.pc \in {"endFlush", "endFinalize"} => ~HasKind(q, "done")
        /\ session.pc \in {"catchFlush", "catchFinalize"} =>
              /\ q # <<>>
              /\ q[Len(q)].kind = "error"
        /\ HasKind(q, "error") =>
              (session.flushCalls >= 1 /\ Len(prisma.command) = 1)
        /\ controller.state = "closed" =>
              /\ ~WritePending
              /\ Len(prisma.command) = 1
              /\ session.pc = "ended"
        /\ WritePending => controller.state # "closed"

\* C32 witness: on the failure path the error event is in the stream while the
\* summary write is pending and the stream is still open.
C32_Witness ==
    /\ route = "execute"
    /\ session.pc = "catchFinalize"
    /\ controller.state = "readable"
    /\ controller.queue[Len(controller.queue)].kind = "error"
    /\ WritePending

\* C32 second witness state: on the success path the final flush and the summary
\* write returned, done was emitted and the stream closed
C32_WitnessDone ==
    /\ route = "execute"
    /\ controller.state = "closed"
    /\ HasKind(controller.queue, "done")
    /\ Len(prisma.terminalEvent) >= 1
    /\ prisma.command[1].state = "failed"

\* C33: in the execute pipeline the batches handed to createMany, followed by the
\* pending batch, are the consumed events one after the other, each once: an
\* event of a batch whose write is pending or has failed is not in the pending
\* batch nor in a later call. No call carries an empty batch, so there are at
\* most as many calls as flushEvents was called.
C33_EachEventWrittenAtMostOnce ==
    route = "execute" =>
        /\ Len(Pushed) <= Len(session.consumed)
        /\ Pushed = [i \in DOMAIN Pushed |-> Persisted(session.consumed[i])]
        /\ \A i \in DOMAIN prisma.terminalEvent : prisma.terminalEvent[i].data # <<>>
        /\ Len(prisma.terminalEvent) <= session.flushCalls
        /\ session.pc \in {"loopFlush", "endFlush", "catchFlush"} =>
              /\ session.eventBatch = <<>>
              /\ prisma.terminalEvent[Len(prisma.terminalEvent)].state = "pending"

\* C33 witness: the time-based flush failed; the events after it went into a
\* second call of their own.
C33_Witness ==
    /\ route = "execute"
    /\ Ended
    /\ Len(prisma.terminalEvent) = 2
    /\ prisma.terminalEvent[1].state = "failed"
    /\ Len(prisma.terminalEvent[1].data) + Len(prisma.terminalEvent[2].data)
          = Len(session.consumed)

\* C33 witness: a flushEvents call found the batch empty and made no call.
C33_WitnessEmptyBatch ==
    /\ route = "execute"
    /\ Ended
    /\ prisma.terminalEvent # <<>>
    /\ session.flushCalls > Len(prisma.terminalEvent)

\* C34: when the execute pipeline has ended on a stream its client cancelled,
\* no event is left in the pending batch and the summary has been written
\* exactly once.
C34_DisconnectStillPersists ==
    (route = "execute" /\ Ended /\ controller.state = "cancelled") =>
        /\ session.eventBatch = <<>>
        /\ Len(prisma.command) = 1

(***************************************************************************)
(* Cancellation                                                            *)
(***************************************************************************)
RECURSIVE CountKind(_, _)
CountKind(q, kind) ==
    IF q = <<>> THEN 0
    ELSE (IF Head(q).kind = kind THEN 1 ELSE 0) + CountKind(Tail(q), kind)

RECURSIVE CountDeltaCalls(_)
CountDeltaCalls(calls) ==
    IF calls = <<>> THEN 0
    ELSE (IF Head(calls).listener = "onDelta" THEN 1 ELSE 0) + CountDeltaCalls(Tail(calls))

RECURSIVE SumDeltaCalls(_)
SumDeltaCalls(F) ==
    IF F = {} THEN 0
    ELSE LET f == CHOOSE g \in F : TRUE
         IN CountDeltaCalls(decoders[f].calls) + SumDeltaCalls(F \ {f})

\* the onDelta calls whose controller.enqueue threw: the calls the decoders made
\* less the delta events that reached the stream
ListenerCallsThatThrew ==
    SumDeltaCalls(DOMAIN decoders) - CountKind(controller.queue, "delta")

\* the events pulled from runExecute whose controller.enqueue threw
PulledNotEmitted ==
    Len(session.consumed) - (Len(controller.queue)
                                - CountKind(controller.queue, "done")
                                - CountKind(controller.queue, "error"))

ExecuteStopsAfterDisconnect ==
    route = "execute" => PulledNotEmitted <= 1

(***************************************************************************)
(* The event protocol of runExecute                                        *)
(***************************************************************************)
HasExitCode(event) == event.kind = "status" /\ "exitCode" \in DOMAIN event.data

\* C36: the events pulled from runExecute are a status event without exit code,
\* then either a token event whose text is not empty and ends with a newline
\* followed by a status event with exit code 0 and both counters, or a stderr
\* event followed by a status event with exit code 1, and nothing after. A
\* generator that ran to its end yielded all three. An error event (the route's
\* answer to an exception) is only ever sent when no event was pulled: a failure
\* of the model run is yielded as stderr, not raised.
C36_ExecuteEventProtocol ==
    route = "execute" =>
        LET c == session.consumed IN
        /\ Len(c) <= 3
        /\ Len(c) >= 1 => (c[1].kind = "status" /\ ~HasExitCode(c[1]))
        /\ Len(c) >= 2 =>
              \/ /\ c[2].kind = "token"
                 /\ Len(c[2].data.text) > 0
                 /\ c[2].data.text[Len(c[2].data.text)] = NEWLINE
              \/ c[2].kind = "stderr"
        /\ Len(c) = 3 =>
              /\ HasExitCode(c[3])
              /\ c[2].kind = "token" =>
                    /\ c[3].data.exitCode = 0
                    /\ {"tokensIn", "tokensOut"} \subseteq DOMAIN c[3].data
              /\ c[2].kind = "stderr" => c[3].data.exitCode = 1
        /\ (generator.pc = "finished" /\ c # <<>>) => Len(c) = 3
        /\ generator.pc \in {"afterToken", "afterStderr"} => Len(c) = 2
        /\ HasKind(controller.queue, "error") => c = <<>>

\* C36 witness: the model returned an empty output, which was yielded as a lone
\* newline and followed by the closing status with the counters at 0.
C36_Witness ==
    /\ route = "execute"
    /\ Len(session.consumed) = 3
    /\ session.consumed[2] = TokenEvent(<<NEWLINE>>)
    /\ session.consumed[3].data.exitCode = 0
    /\ session.consumed[3].data.tokensIn = 0

\* C36 second witness state: the model run failed after the first yield; stderr
\* and the status with exit code 1 were yielded and the stream ended with done.
C36_WitnessFailed ==
    /\ route = "execute"
    /\ Len(session.consumed) = 3
    /\ session.consumed[2] = StderrEvent(TextBoom)
    /\ session.consumed[3] = StatusFailed
    /\ HasKind(controller.queue, "done")

(***************************************************************************)
(* ensureCommandRecord                                                     *)
(***************************************************************************)
\* the rows of the command table with the given id
RowsWithId(id) == {i \in DOMAIN prisma.rows : prisma.rows[i].id = id}

\* request r got its execute stream
HasExecuteStream(r) == "commandId" \in DOMAIN session[r]

\* ensureCommandRecord of request r is past the lookup by id without a record
PastLookupById(r) ==
    /\ session[r].pc \in {"findByInput", "create"}
    /\ session[r].req.commandId # ""

\* C37: the command record an execute pipeline was created with exists and is a
\* record of the session the request named, whatever commandId the request
\* carried. The lookup by id is given up only when the session has no record of
\* that id (the id then names no record or a record of another session), and
\* the record is one of the session found by input or a new one.
C37_RecordOfRequestedSession ==
    route = "server" =>
        \A r \in Requests :
            /\ HasExecuteStream(r) =>
                  /\ RowsWithId(session[r].commandId) # {}
                  /\ \A i \in RowsWithId(session[r].commandId) :
                        prisma.rows[i].sessionId = session[r].sessionId
            /\ PastLookupById(r) =>
                  \A i \in RowsWithId(session[r].req.commandId) :
                      prisma.rows[i].sessionId # session[r].req.sessionId
            /\ \A i \in DOMAIN prisma.rows :
                  prisma.rows[i].createdBy = r =>
                      /\ OwnedByUser(prisma.rows[i].sessionId)
                      /\ HasExecuteStream(r) =>
                            /\ session[r].commandId = prisma.rows[i].id
                            /\ session[r].sessionId = prisma.rows[i].sessionId

\* C37 witness: the first request, on the user's session, carried the id of the
\* other session's record; the lookup by id found nothing and the lookup by
\* input is under way. Meanwhile the second request got its stream on a record
\* created for it in the user's session.
C37_Witness ==
    /\ route = "server"
    /\ session["r1"].pc = "findByInput"
    /\ session["r1"].req.commandId = "c2"
    /\ session["r1"].req.sessionId = "s1"
    /\ HasExecuteStream("r2")
    /\ session["r2"].commandId = "c3"
    /\ \E i \in RowsWithId("c3") :
          prisma.rows[i].sessionId = "s1" /\ prisma.rows[i].createdBy = "r2"

(***************************************************************************)
(* The Sidebar client of the generate and explain streams: readEventStream,*)
(* handleGenerate, handleExplain. Here controller.queue is the stream the   *)
(* server produced, pos the number of its events read so far and session   *)
(* the state of the component.                                             *)
(***************************************************************************)
TextUnknownAIError == <<85, 110, 107, 110, 111, 119, 110, 32, 65, 73, 32, 101, 114, 114, 111, 114>>  \* Unknown AI error

\* the most delta events a stream of the model carries
MaxDeltas == 2

NullSuggestion == [isNull |-> TRUE, command |-> <<>>, explanation |-> <<>>]

SuggestionOf(command, explanation) ==
    [isNull |-> FALSE, command |-> command, explanation |-> explanation]

\* the state of the component before a request: nothing shown, nothing running
NewSidebar(tab) ==
    [pc |-> "idle", tab |-> tab,
     suggestion |-> NullSuggestion, isGenerating |-> FALSE,
     explanation |-> NullOutput, isExplaining |-> FALSE,
     logged |-> <<>>]

\* the streams a field route produces: delta events, then result and done, or an
\* error event, or nothing more (the connection was cut)
SidebarDeltas(tab) ==
    { DeltaEvent([field |-> f, delta |-> <<97>>]) :
          f \in IF tab = "generate" THEN {FieldCommand, FieldExplanation}
                ELSE {FieldExplanation} }

SidebarResult(tab) ==
    [kind |-> "result",
     data |-> IF tab = "generate"
              THEN [command |-> <<97, 97>>, explanation |-> <<117>>]
              ELSE [explanation |-> <<117>>]]

SidebarStreams(tab) ==
    { ds \o end :
        ds \in UNION {[1..n -> SidebarDeltas(tab)] : n \in 0..MaxDeltas},
        end \in { <<SidebarResult(tab), [kind |-> "done"]>>,
                  <<[kind |-> "error", data |-> [message |-> TextBoom]]>>,
                  <<[kind |-> "error", data |-> <<>>]>>,
                  <<>> } }

\* result of an event handler: the state it left and whether it threw
Handled(s, thrown) == [s |-> s, thrown |-> thrown]

\* event.data?.message ?? 'Unknown AI error'
ErrorMessageOf(event) ==
    IF "data" \in DOMAIN event /\ "message" \in DOMAIN event.data
    THEN event.data.message ELSE TextUnknownAIError

\* the handler handleGenerate passes to readEventStream
onEventGenerate(s, event) ==
    IF event.kind = "delta"
    THEN IF event.data.text = <<>> THEN Handled(s, <<>>)
         ELSE LET next == IF s.suggestion.isNull THEN SuggestionOf(<<>>, <<>>)
                          ELSE s.suggestion
              IN Handled(
                   [s EXCEPT !.suggestion =
                       IF event.data.field = FieldCommand
                       THEN [next EXCEPT !.command = @ \o event.data.text]
                       ELSE IF event.data.field = FieldExplanation
                       THEN [next EXCEPT !.explanation = @ \o event.data.text]
                       ELSE next],
                   <<>>)
    ELSE IF event.kind = "result"
    THEN Handled(
           [s EXCEPT !.suggestion =
               SuggestionOf(
                   IF "command" \in DOMAIN event.data THEN event.data.command ELSE <<>>,
                   IF "explanation" \in DOMAIN event.data
                   THEN event.data.explanation ELSE <<>>)],
           <<>>)
    ELSE IF event.kind = "error"
    THEN Handled(s, <<ErrorMessageOf(event)>>)
    ELSE Handled(s, <<>>)

\* the handler handleExplain passes to readEventStream
onEventExplain(s, event) ==
    IF event.kind = "delta"
    THEN IF event.data.text = <<>> THEN Handled(s, <<>>)
         ELSE Handled([s EXCEPT !.explanation =
                          TextOutput(s.explanation.text \o event.data.text)], <<>>)
    ELSE IF event.kind = "result"
    THEN IF "explanation" \in DOMAIN event.data
         THEN Handled([s EXCEPT !.explanation = TextOutput(event.data.explanation)], <<>>)
         ELSE Handled(s, <<>>)
    ELSE IF event.kind = "error"
    THEN Handled(s, <<ErrorMessageOf(event)>>)
    ELSE Handled(s, <<>>)

onEvent(s, event) ==
    IF s.tab = "generate" THEN onEventGenerate(s, event) ELSE onEventExplain(s, event)

\* processBuffer lets what the handler throws reach its caller
RECURSIVE processBuffer_Rethrows(_, _)
processBuffer_Rethrows(s, events) ==
    IF events = <<>> THEN Handled(s, <<>>)
    ELSE LET h == onEvent(s, Head(events))
         IN IF h.thrown # <<>> THEN h
            ELSE processBuffer_Rethrows(h.s, Tail(events))

\* processBuffer: each complete event of the buffer is parsed and handed to
\* onEvent inside one try block, whose catch logs whatever was thrown, by
\* JSON.parse or by the handler, and goes on with the next event
RECURSIVE processBuffer(_, _)
processBuffer(s, events) ==
    IF events = <<>> THEN Handled(s, <<>>)
    ELSE LET h == onEvent(s, Head(events))
         IN processBuffer([h.s EXCEPT !.logged = @ \o h.thrown], Tail(events))

\* the finally block of handleGenerate / handleExplain
SidebarFinally(s) ==
    [s EXCEPT !.pc = "settled",
              !.isGenerating = IF s.tab = "generate" THEN FALSE ELSE @,
              !.isExplaining = IF s.tab = "explain" THEN FALSE ELSE @]

\* the catch block of handleGenerate / handleExplain for an error that is no
\* AbortError: what is shown is reset to null
SidebarCatch(s) ==
    SidebarFinally(
        IF s.tab = "generate" THEN [s EXCEPT !.suggestion = NullSuggestion]
        ELSE [s EXCEPT !.explanation = NullOutput])

InitSidebar ==
    \E tab \in {"generate", "explain"} : \E stream \in SidebarStreams(tab) :
        /\ route = "sidebar"
        /\ session = NewSidebar(tab)
        /\ controller = [state |-> "readable", queue |-> stream]
        /\ pos = 0
        /\ text = <<>>
        /\ expected = <<>>
        /\ cuts = {}
        /\ decoders = <<>>
        /\ prisma = <<>>
        /\ generator = <<>>
        /\ now = 0

SidebarUnchanged ==
    UNCHANGED <<text, expected, cuts, decoders, route, controller, prisma, generator, now>>

\* handleGenerate / handleExplain up to the fetch: the flag is set and what was
\* shown is cleared (to null for a suggestion, to '' for an explanation)
Submit ==
    /\ route = "sidebar"
    /\ session.pc = "idle"
    /\ session' =
          IF session.tab = "generate"
          THEN [session EXCEPT !.pc = "fetch", !.isGenerating = TRUE,
                               !.suggestion = NullSuggestion]
          ELSE [session EXCEPT !.pc = "fetch", !.isExplaining = TRUE,
                               !.explanation = TextOutput(<<>>)]
    /\ UNCHANGED pos
    /\ SidebarUnchanged

\* fetch resolves with the stream
FetchReturns ==
    /\ route = "sidebar"
    /\ session.pc = "fetch"
    /\ session' = [session EXCEPT !.pc = "reading"]
    /\ UNCHANGED pos
    /\ SidebarUnchanged

\* fetch rejects, or resolves with a response that is not ok
FetchFails ==
    /\ route = "sidebar"
    /\ session.pc = "fetch"
    /\ session' = SidebarCatch(session)
    /\ UNCHANGED pos
    /\ SidebarUnchanged

\* reader.read() resolves with a chunk holding the next n events
ReadChunk ==
    /\ route = "sidebar"
    /\ session.pc = "reading"
    /\ \E n \in 1..Min(MaxChunkLen, Len(controller.queue) - pos) :
          LET h == processBuffer(session, SubSeq(controller.queue, pos + 1, pos + n))
          IN /\ session' = IF h.thrown # <<>> THEN SidebarCatch(h.s) ELSE h.s
             /\ pos' = pos + n
    /\ SidebarUnchanged

\* reader.read() resolves with done: the loop ends
ReadDone ==
    /\ route = "sidebar"
    /\ session.pc = "reading"
    /\ pos = Len(controller.queue)
    /\ session' = SidebarFinally(session)
    /\ UNCHANGED pos
    /\ SidebarUnchanged

\* the component is unmounted: fetch or read rejects with an AbortError, for which
\* the catch block returns at once
Aborted ==
    /\ route = "sidebar"
    /\ session.pc \in {"fetch", "reading"}
    /\ session' = SidebarFinally(session)
    /\ UNCHANGED pos
    /\ SidebarUnchanged

NextSidebar ==
    \/ Submit
    \/ FetchReturns
    \/ FetchFails
    \/ ReadChunk
    \/ ReadDone
    \/ Aborted

SpecSidebar == InitSidebar /\ [][NextSidebar]_vars

\* the events of the stream the component has read
Delivered == SubSeq(controller.queue, 1, pos)

\* C38: when handleGenerate (handleExplain) has returned after the Sidebar client
\* was delivered an error event, what is shown (the partial suggestion, the
\* partial explanation) is null again and the generating (explaining) flag is
\* cleared.
C38_ErrorEventResetsState ==
    (route = "sidebar" /\ session.pc = "settled" /\ HasKind(Delivered, "error")) =>
        /\ session.suggestion = NullSuggestion
        /\ session.explanation = NullOutput
        /\ ~session.isGenerating
        /\ ~session.isExplaining

\* What does hold after an error event: the error is logged by processBuffer and
\* the request goes on to its regular end, where the flag is cleared.
ErrorEventOnlyLogged ==
    (route = "sidebar" /\ HasKind(Delivered, "error")) =>
        /\ Len(session.logged) = 1
        /\ session.logged[1] \in {TextBoom, TextUnknownAIError}
        /\ session.pc = "settled" => (~session.isGenerating /\ ~session.isExplaining)

=============================================================================
